---- MODULE Spec2Model ----
(***************************************************************************)
(* File-Lang: lexer, parser, environment and interpreter.                  *)
(*                                                                         *)
(* Text (source text, identifiers, string payloads, file content) is a     *)
(* sequence of bytes, each byte a one-character string; the two bytes of   *)
(* the UTF-8 encoding of U+00E9 are written "C3" and "A9".                 *)
(*                                                                         *)
(* Four specifications share the variables:                                *)
(*   Spec      the Interpreter executing statements in any order against   *)
(*             its Environment and the disk;                               *)
(*   SpecMain  main(): lex the source, parse the tokens, run the AST;      *)
(*   SpecLex   Lexer::lex on bounded inputs, and lexing of the             *)
(*             re-serialized token sequence;                               *)
(*   SpecParse Parser::parse on bounded token vectors.                     *)
(***************************************************************************)
EXTENDS Integers, Sequences, FiniteSets, TLC

\* Every record of the model lists its fields in this order, the order in
\* which TLC keeps the fields of a record.
FieldOrder ==
    [args |-> 0, ast |-> 0, call |-> 0, ch |-> 0, content |-> 0, destination |-> 0, disk |-> 0,
     err |-> 0, filename |-> 0, fmt |-> 0, found |-> 0, is_open |-> 0, kind |-> 0,
     msg |-> 0, new_filename |-> 0, none |-> 0, ok |-> 0, path |-> 0, pattern |-> 0,
     pos |-> 0, replacement |-> 0, source |-> 0, stmt |-> 0, text |-> 0, to |-> 0,
     tokens |-> 0, val |-> 0, var_name |-> 0]

VARIABLES
    files,    \* Environment.files: variable name -> FileEntry
    disk,     \* the file system: path -> content of the regular file there
    res,      \* Result of the statement executed last
    io,       \* the disk call made by the statement executed last
    out,      \* what the statement executed last printed (one entry per println)
    last,     \* the statement executed last
    stop,     \* Interpreter.stop
    source,   \* main: the source text / Lexer.input
    lexed,    \* result of Lexer::lex
    relexed,  \* result of lexing the re-serialized tokens
    tokens,   \* Parser.tokens
    parsed,   \* result of Parser::parse
    idx,      \* Interpreter::run: number of statements taken from the AST
    pc,       \* position of main
    status    \* process exit status

envVars == <<files, disk, res, io, out, last, stop>>
pipeVars == <<source, lexed, relexed, tokens, parsed, idx, pc, status>>
vars == <<files, disk, res, io, out, last, stop,
          source, lexed, relexed, tokens, parsed, idx, pc, status>>

(***************************************************************************)
(* Bounds                                                                  *)
(***************************************************************************)
MaxContent == 2      \* longest file content, in memory or on disk
MaxFrags == 3        \* a script is made of at most MaxFrags fragments
MaxLexFrags == 3     \* a text handed to the lexer is made of at most MaxLexFrags fragments
MaxTokens == 4       \* longest token vector handed to the parser directly

None == [none |-> TRUE]

Put(m, k, v) == [x \in DOMAIN m \cup {k} |-> IF x = k THEN v ELSE m[x]]
Del(m, k) == [x \in DOMAIN m \ {k} |-> m[x]]
EmptyMap == [x \in {} |-> None]

RECURSIVE Flatten(_)
Flatten(ss) == IF ss = <<>> THEN <<>> ELSE Head(ss) \o Flatten(Tail(ss))

Perms(S) == {p \in [1..Cardinality(S) -> S] : \A i, j \in 1..Cardinality(S) : p[i] = p[j] => i = j}

(***************************************************************************)
(* Inputs of the interpreter model                                         *)
(***************************************************************************)
VarNames == {<<"f">>}
FileNames == {<<"a">>, <<"b">>}
Dirs == {<<".">>}
Texts == {<<"x">>}
Patterns == {<<"x">>, <<"(">>}
Replacements == {<<>>, <<"x", "x">>}
InitContents == {<<>>, <<"x">>}

(***************************************************************************)
(* errors.rs: RuntimeError carries a message; the model keeps the format   *)
(* string and its arguments apart.                                         *)
(***************************************************************************)
Ok == [args |-> <<>>, msg |-> "", ok |-> TRUE]
RuntimeError(msg, args) == [args |-> args, msg |-> msg, ok |-> FALSE]

\* a disk call: the function called, its path arguments, whether it succeeded
NoCall == [call |-> "none", ok |-> TRUE, path |-> <<>>, to |-> <<>>]
Call(c, p, t, ok) == [call |-> c, ok |-> ok, path |-> p, to |-> t]

(***************************************************************************)
(* utils.rs and std::fs: the outcomes a disk call can have.  A call can    *)
(* fail for reasons outside the model (permissions, full disk), so every   *)
(* call has a failing outcome.                                             *)
(***************************************************************************)
IoOk(d, v) == [disk |-> d, ok |-> TRUE, val |-> v]
IoErr(d) == [disk |-> d, ok |-> FALSE, val |-> <<>>]

\* OpenOptions write+truncate+create, then write_all
write_to_file(d, filename, content) ==
    {IoOk(Put(d, filename, content), <<>>), IoErr(d)}
    \cup (IF content # <<>> THEN {IoErr(Put(d, filename, <<>>))} ELSE {})

\* OpenOptions write+append+create, then write_all
append_to_file(d, filename, content) ==
    {IoOk(Put(d, filename, (IF filename \in DOMAIN d THEN d[filename] ELSE <<>>) \o content), <<>>),
     IoErr(d)}
    \cup (IF content # <<>> /\ filename \notin DOMAIN d THEN {IoErr(Put(d, filename, <<>>))} ELSE {})

\* fs::read_to_string
read_file_content_fs(d, filename) ==
    IF filename \in DOMAIN d THEN {IoOk(d, d[filename]), IoErr(d)} ELSE {IoErr(d)}

\* fs::rename
move_file(d, src, dst) ==
    IF src \in DOMAIN d
    THEN {IoOk(IF src = dst THEN d ELSE Put(Del(d, src), dst, d[src]), <<>>), IoErr(d)}
    ELSE {IoErr(d)}

\* fs::copy; copying a file onto itself may leave it as it is or empty
copy_file(d, src, dst) ==
    IF src \in DOMAIN d
    THEN IF src = dst
         THEN {IoOk(d, <<>>), IoOk(Put(d, dst, <<>>), <<>>), IoErr(d)}
         ELSE {IoOk(Put(d, dst, d[src]), <<>>), IoErr(d), IoErr(Put(d, dst, <<>>))}
    ELSE {IoErr(d)}

\* fs::remove_file
remove_file(d, path) ==
    IF path \in DOMAIN d THEN {IoOk(Del(d, path), <<>>), IoErr(d)} ELSE {IoErr(d)}

\* fs::read_dir: the entries of the directory in the order the platform gives
list_directory(d, path) ==
    IF path \in Dirs THEN {IoOk(d, p) : p \in Perms(DOMAIN d)} \cup {IoErr(d)} ELSE {IoErr(d)}

(***************************************************************************)
(* str::lines and the regex crate                                          *)
(***************************************************************************)
StripCR(l) == IF l # <<>> /\ l[Len(l)] = "\r" THEN SubSeq(l, 1, Len(l) - 1) ELSE l

RECURSIVE LinesFrom(_, _)
LinesFrom(t, cur) ==
    IF t = <<>> THEN (IF cur = <<>> THEN <<>> ELSE <<cur>>)
    ELSE IF Head(t) = "\n" THEN <<StripCR(cur)>> \o LinesFrom(Tail(t), <<>>)
    ELSE LinesFrom(Tail(t), Append(cur, Head(t)))

Lines(t) == LinesFrom(t, <<>>)

\* Regex::new: the patterns of the model are literal text, which is a valid
\* regex matching itself, or contain an unclosed group, which is a syntax error
RegexValid(pattern) == \A i \in 1..Len(pattern) : pattern[i] # "("

is_match(pattern, line) ==
    \E i \in 0..(Len(line) - Len(pattern)) : SubSeq(line, i + 1, i + Len(pattern)) = pattern

\* Regex::replacen(text, 1, replacement): only the first match is replaced
replace_first(text, pattern, replacement) ==
    IF \E i \in 1..(Len(text) - Len(pattern) + 1) : SubSeq(text, i, i + Len(pattern) - 1) = pattern
    THEN LET i == CHOOSE i \in 1..(Len(text) - Len(pattern) + 1) :
                     /\ SubSeq(text, i, i + Len(pattern) - 1) = pattern
                     /\ \A j \in 1..(i - 1) : SubSeq(text, j, j + Len(pattern) - 1) # pattern
         IN SubSeq(text, 1, i - 1) \o replacement \o SubSeq(text, i + Len(pattern), Len(text))
    ELSE text

RECURSIVE replace_all(_, _, _)
replace_all(text, pattern, replacement) ==
    IF pattern = <<>>
    THEN IF text = <<>> THEN replacement
         ELSE replacement \o <<Head(text)>> \o replace_all(Tail(text), pattern, replacement)
    ELSE IF Len(text) < Len(pattern) THEN text
    ELSE IF SubSeq(text, 1, Len(pattern)) = pattern
         THEN replacement \o replace_all(SubSeq(text, Len(pattern) + 1, Len(text)), pattern, replacement)
         ELSE <<Head(text)>> \o replace_all(Tail(text), pattern, replacement)

\* search_in_text pushing (i, line) instead of (i + 1, line)
search_in_text_from_zero(text, pattern) ==
    IF ~RegexValid(pattern) THEN [ok |-> FALSE, val |-> <<>>]
    ELSE [ok |-> TRUE,
          val |-> LET ls == Lines(text)
                      RECURSIVE Collect(_)
                      Collect(i) == IF i > Len(ls) THEN <<>>
                                    ELSE (IF is_match(pattern, ls[i]) THEN <<<<i - 1, ls[i]>>>> ELSE <<>>)
                                         \o Collect(i + 1)
                  IN Collect(1)]

search_in_text(text, pattern) ==
    IF ~RegexValid(pattern) THEN [ok |-> FALSE, val |-> <<>>]
    ELSE [ok |-> TRUE,
          val |-> LET ls == Lines(text)
                      RECURSIVE Collect(_)
                      Collect(i) == IF i > Len(ls) THEN <<>>
                                    ELSE (IF is_match(pattern, ls[i]) THEN <<<<i, ls[i]>>>> ELSE <<>>)
                                         \o Collect(i + 1)
                  IN Collect(1)]

replace_in_text(text, pattern, replacement) ==
    IF ~RegexValid(pattern) THEN [ok |-> FALSE, val |-> <<>>]
    ELSE [ok |-> TRUE, val |-> replace_all(text, pattern, replacement)]

(***************************************************************************)
(* ast.rs: one record per Statement variant, fields named as in the source *)
(***************************************************************************)
OpenStmt(filename, var_name) == [filename |-> filename, kind |-> "Open", var_name |-> var_name]
ReadStmt(var_name) == [kind |-> "Read", var_name |-> var_name]
WriteStmt(var_name, text) == [kind |-> "Write", text |-> text, var_name |-> var_name]
AppendStmt(var_name, text) == [kind |-> "Append", text |-> text, var_name |-> var_name]
ShowStmt(var_name) == [kind |-> "Show", var_name |-> var_name]
CloseStmt(var_name) == [kind |-> "Close", var_name |-> var_name]
TruncateStmt(var_name) == [kind |-> "Truncate", var_name |-> var_name]
SearchStmt(var_name, pattern) == [kind |-> "Search", pattern |-> pattern, var_name |-> var_name]
ReplaceStmt(var_name, pattern, replacement) ==
    [kind |-> "Replace", pattern |-> pattern, replacement |-> replacement, var_name |-> var_name]
LineCountStmt(var_name) == [kind |-> "LineCount", var_name |-> var_name]
CopyStmt(src, dst) == [destination |-> dst, kind |-> "Copy", source |-> src]
MoveStmt(src, dst) == [destination |-> dst, kind |-> "Move", source |-> src]
RemoveStmt(filename) == [filename |-> filename, kind |-> "Remove"]
RenameStmt(var_name, new_filename) ==
    [kind |-> "Rename", new_filename |-> new_filename, var_name |-> var_name]
ListDirStmt(path) == [kind |-> "ListDir", path |-> path]
DumpEnvStmt == [kind |-> "DumpEnv"]
HelpStmt == [kind |-> "Help"]
ExitStmt == [kind |-> "Exit"]

NoStmt == [kind |-> "none"]

(***************************************************************************)
(* environment.rs                                                          *)
(***************************************************************************)
FileEntry(filename, content, is_open) ==
    [content |-> content, filename |-> filename, is_open |-> is_open]

NotOpenError(var_name) == RuntimeError("Variable '{}' file is not open.", <<var_name>>)
NoSuchVariable(var_name) == RuntimeError("No such variable '{}'", <<var_name>>)
AlreadyOpen(var_name) == RuntimeError("Variable '{}' already has an open file.", <<var_name>>)

\* get_entry without the is_open gate
get_entry_ungated(var_name) ==
    IF var_name \notin DOMAIN files THEN NoSuchVariable(var_name) ELSE Ok

\* Ok when the entry exists and is open, else the error to return
get_entry(var_name) ==
    IF var_name \notin DOMAIN files THEN NoSuchVariable(var_name)
    ELSE IF ~files[var_name].is_open THEN NotOpenError(var_name)
    ELSE Ok

get_entry_mut(var_name) ==
    IF var_name \notin DOMAIN files THEN NoSuchVariable(var_name)
    ELSE IF ~files[var_name].is_open THEN NotOpenError(var_name)
    ELSE Ok

\* an early return of a RuntimeError before any disk call
Fail(err) == res' = err /\ files' = files /\ disk' = disk /\ io' = NoCall

\* open_file reusing a closed slot without entry.content.clear()
open_file_keeps_content(var_name, filename) ==
    /\ IF var_name \in DOMAIN files
       THEN IF files[var_name].is_open
            THEN res' = AlreadyOpen(var_name) /\ files' = files
            ELSE /\ files' = [files EXCEPT ![var_name].filename = filename,
                                           ![var_name].is_open = TRUE]
                 /\ res' = Ok
       ELSE /\ files' = Put(files, var_name, FileEntry(filename, <<>>, TRUE))
            /\ res' = Ok
    /\ disk' = disk
    /\ io' = NoCall

open_file(var_name, filename) ==
    /\ IF var_name \in DOMAIN files
       THEN IF files[var_name].is_open
            THEN res' = AlreadyOpen(var_name) /\ files' = files
            ELSE /\ files' = [files EXCEPT ![var_name] = FileEntry(filename, <<>>, TRUE)]
                 /\ res' = Ok
       ELSE /\ files' = Put(files, var_name, FileEntry(filename, <<>>, TRUE))
            /\ res' = Ok
    /\ disk' = disk
    /\ io' = NoCall

read_file_content(var_name) ==
    LET e == get_entry_mut(var_name) IN
    IF ~e.ok THEN Fail(e)
    ELSE LET filename == files[var_name].filename IN
         \E o \in read_file_content_fs(disk, filename) :
            /\ io' = Call("read_file_content", filename, <<>>, o.ok)
            /\ disk' = o.disk
            /\ IF o.ok
               THEN files' = [files EXCEPT ![var_name].content = o.val] /\ res' = Ok
               ELSE files' = files /\ res' = RuntimeError("Failed to read file '{}': {}", <<filename>>)

\* write_file_content storing the text in memory before the disk call returns
write_file_content_eager(var_name, text) ==
    LET e == get_entry_mut(var_name) IN
    IF ~e.ok THEN Fail(e)
    ELSE LET filename == files[var_name].filename IN
         \E o \in write_to_file(disk, filename, text) :
            /\ io' = Call("write_to_file", filename, <<>>, o.ok)
            /\ disk' = o.disk
            /\ files' = [files EXCEPT ![var_name].content = text]
            /\ res' = IF o.ok THEN Ok
                      ELSE RuntimeError("Failed to write to file '{}': {}", <<filename>>)

\* write_file_content storing the text in every variable bound to the file
write_file_content_shared(var_name, text) ==
    LET e == get_entry_mut(var_name) IN
    IF ~e.ok THEN Fail(e)
    ELSE LET filename == files[var_name].filename IN
         \E o \in write_to_file(disk, filename, text) :
            /\ io' = Call("write_to_file", filename, <<>>, o.ok)
            /\ disk' = o.disk
            /\ IF o.ok
               THEN /\ files' = [v \in DOMAIN files |->
                                    IF files[v].filename = filename
                                    THEN FileEntry(filename, text, files[v].is_open)
                                    ELSE files[v]]
                    /\ res' = Ok
               ELSE files' = files /\ res' = RuntimeError("Failed to write to file '{}': {}", <<filename>>)

write_file_content(var_name, text) ==
    LET e == get_entry_mut(var_name) IN
    IF ~e.ok THEN Fail(e)
    ELSE LET filename == files[var_name].filename IN
         \E o \in write_to_file(disk, filename, text) :
            /\ io' = Call("write_to_file", filename, <<>>, o.ok)
            /\ disk' = o.disk
            /\ IF o.ok
               THEN files' = [files EXCEPT ![var_name].content = text] /\ res' = Ok
               ELSE files' = files /\ res' = RuntimeError("Failed to write to file '{}': {}", <<filename>>)

append_file_content(var_name, text) ==
    LET e == get_entry_mut(var_name) IN
    IF ~e.ok THEN Fail(e)
    ELSE LET filename == files[var_name].filename IN
         \E o \in append_to_file(disk, filename, text) :
            /\ io' = Call("append_to_file", filename, <<>>, o.ok)
            /\ disk' = o.disk
            /\ IF o.ok
               THEN files' = [files EXCEPT ![var_name].content = @ \o text] /\ res' = Ok
               ELSE files' = files /\ res' = RuntimeError("Failed to append to file '{}': {}", <<filename>>)

get_file_content(var_name) ==
    LET e == get_entry(var_name) IN
    IF ~e.ok THEN [err |-> e, ok |-> FALSE, val |-> <<>>]
    ELSE [err |-> Ok, ok |-> TRUE, val |-> files[var_name].content]

\* close_file with entry.content.clear() added
close_file_clears_content(var_name) ==
    LET e == get_entry_mut(var_name) IN
    IF ~e.ok THEN Fail(e)
    ELSE /\ files' = [files EXCEPT ![var_name].is_open = FALSE, ![var_name].content = <<>>]
         /\ res' = Ok
         /\ disk' = disk
         /\ io' = NoCall

\* close_file removing the entry from the map instead of marking it closed
close_file_removes_entry(var_name) ==
    LET e == get_entry_mut(var_name) IN
    IF ~e.ok THEN Fail(e)
    ELSE /\ files' = Del(files, var_name)
         /\ res' = Ok
         /\ disk' = disk
         /\ io' = NoCall

close_file(var_name) ==
    LET e == get_entry_mut(var_name) IN
    IF ~e.ok THEN Fail(e)
    ELSE IF ~files[var_name].is_open THEN Fail(NotOpenError(var_name))
    ELSE /\ files' = [files EXCEPT ![var_name].is_open = FALSE]
         /\ res' = Ok
         /\ disk' = disk
         /\ io' = NoCall

\* truncate_file without entry.content.clear()
truncate_file_keeps_content(var_name) ==
    LET e == get_entry_mut(var_name) IN
    IF ~e.ok THEN Fail(e)
    ELSE LET filename == files[var_name].filename IN
         \E o \in write_to_file(disk, filename, <<>>) :
            /\ io' = Call("write_to_file", filename, <<>>, o.ok)
            /\ disk' = o.disk
            /\ files' = files
            /\ res' = IF o.ok THEN Ok
                      ELSE RuntimeError("Failed to truncate file '{}': {}", <<filename>>)

truncate_file(var_name) ==
    LET e == get_entry_mut(var_name) IN
    IF ~e.ok THEN Fail(e)
    ELSE LET filename == files[var_name].filename IN
         \E o \in write_to_file(disk, filename, <<>>) :
            /\ io' = Call("write_to_file", filename, <<>>, o.ok)
            /\ disk' = o.disk
            /\ IF o.ok
               THEN files' = [files EXCEPT ![var_name].content = <<>>] /\ res' = Ok
               ELSE files' = files /\ res' = RuntimeError("Failed to truncate file '{}': {}", <<filename>>)

search_file(var_name, pattern) ==
    LET e == get_entry(var_name) IN
    IF ~e.ok THEN [err |-> e, ok |-> FALSE, val |-> <<>>]
    ELSE LET m == search_in_text(files[var_name].content, pattern) IN
         IF ~m.ok THEN [err |-> RuntimeError("Invalid regex '{}': {}", <<pattern>>), ok |-> FALSE, val |-> <<>>]
         ELSE [err |-> Ok, ok |-> TRUE, val |-> m.val]

\* replace_file applying the pattern to the text of the file on disk
replace_file_from_disk(var_name, pattern, replacement) ==
    LET e == get_entry_mut(var_name) IN
    IF ~e.ok THEN Fail(e)
    ELSE LET filename == files[var_name].filename
             old == IF filename \in DOMAIN disk THEN disk[filename] ELSE files[var_name].content
             new_content == replace_in_text(old, pattern, replacement)
         IN
         IF ~new_content.ok THEN Fail(RuntimeError("Invalid regex '{}': {}", <<pattern>>))
         ELSE \E o \in write_to_file(disk, filename, new_content.val) :
                 /\ io' = Call("write_to_file", filename, <<>>, o.ok)
                 /\ disk' = o.disk
                 /\ IF o.ok
                    THEN files' = [files EXCEPT ![var_name].content = new_content.val] /\ res' = Ok
                    ELSE /\ files' = files
                         /\ res' = RuntimeError("Failed to write replaced content to file '{}': {}",
                                                <<filename>>)

replace_file(var_name, pattern, replacement) ==
    LET e == get_entry_mut(var_name) IN
    IF ~e.ok THEN Fail(e)
    ELSE LET new_content == replace_in_text(files[var_name].content, pattern, replacement) IN
         IF ~new_content.ok THEN Fail(RuntimeError("Invalid regex '{}': {}", <<pattern>>))
         ELSE LET filename == files[var_name].filename IN
              \E o \in write_to_file(disk, filename, new_content.val) :
                 /\ io' = Call("write_to_file", filename, <<>>, o.ok)
                 /\ disk' = o.disk
                 /\ IF o.ok
                    THEN files' = [files EXCEPT ![var_name].content = new_content.val] /\ res' = Ok
                    ELSE /\ files' = files
                         /\ res' = RuntimeError("Failed to write replaced content to file '{}': {}",
                                                <<filename>>)

\* line_count counting the pieces of a split at "\n" instead of the lines
line_count_by_split(var_name) ==
    LET e == get_entry(var_name) IN
    IF ~e.ok THEN [err |-> e, ok |-> FALSE, val |-> 0]
    ELSE [err |-> Ok, ok |-> TRUE,
          val |-> 1 + Cardinality({i \in 1..Len(files[var_name].content) :
                                      files[var_name].content[i] = "\n"})]

line_count(var_name) ==
    LET e == get_entry(var_name) IN
    IF ~e.ok THEN [err |-> e, ok |-> FALSE, val |-> 0]
    ELSE [err |-> Ok, ok |-> TRUE, val |-> Len(Lines(files[var_name].content))]

\* rename_file without the assignment of entry.filename
rename_file_keeps_name(var_name, new_filename) ==
    LET e == get_entry_mut(var_name) IN
    IF ~e.ok THEN Fail(e)
    ELSE LET old_filename == files[var_name].filename IN
         \E o \in move_file(disk, old_filename, new_filename) :
            /\ io' = Call("rename", old_filename, new_filename, o.ok)
            /\ disk' = o.disk
            /\ files' = files
            /\ res' = IF o.ok THEN Ok
                      ELSE RuntimeError("Failed to rename file '{}' to '{}': {}",
                                        <<old_filename, new_filename>>)

rename_file(var_name, new_filename) ==
    LET e == get_entry_mut(var_name) IN
    IF ~e.ok THEN Fail(e)
    ELSE LET old_filename == files[var_name].filename IN
         \E o \in move_file(disk, old_filename, new_filename) :
            /\ io' = Call("rename", old_filename, new_filename, o.ok)
            /\ disk' = o.disk
            /\ IF o.ok
               THEN files' = [files EXCEPT ![var_name].filename = new_filename] /\ res' = Ok
               ELSE /\ files' = files
                    /\ res' = RuntimeError("Failed to rename file '{}' to '{}': {}",
                                           <<old_filename, new_filename>>)

\* the lines dump prints, the entries in the order the HashMap iterates
Line(fmt, args) == [args |-> args, fmt |-> fmt]

dump(order) ==
    <<Line("Environment Variables:", <<>>)>>
    \o (IF DOMAIN files = {} THEN <<Line("  (none)", <<>>)>> ELSE <<>>)
    \o [i \in 1..Len(order) |->
           Line("  {} -> {} [{}]",
                <<order[i], files[order[i]].filename,
                  IF files[order[i]].is_open THEN <<"o", "p", "e", "n">>
                  ELSE <<"c", "l", "o", "s", "e", "d">>>>)]

(***************************************************************************)
(* interpreter.rs: each execute_* is the whole handler, its Environment    *)
(* or disk call included.                                                  *)
(***************************************************************************)
execute_open(filename, var_name) ==
    open_file(var_name, filename) /\ out' = <<>> /\ stop' = stop

execute_read(var_name) ==
    read_file_content(var_name) /\ out' = <<>> /\ stop' = stop

execute_write(var_name, text) ==
    write_file_content(var_name, text) /\ out' = <<>> /\ stop' = stop

execute_append(var_name, text) ==
    append_file_content(var_name, text) /\ out' = <<>> /\ stop' = stop

execute_show(var_name) ==
    LET content == get_file_content(var_name) IN
    /\ IF content.ok
       THEN res' = Ok /\ out' = <<Line("{}", <<content.val>>)>>
       ELSE res' = content.err /\ out' = <<>>
    /\ UNCHANGED <<files, disk, stop>>
    /\ io' = NoCall

execute_close(var_name) ==
    close_file(var_name) /\ out' = <<>> /\ stop' = stop

execute_truncate(var_name) ==
    truncate_file(var_name) /\ out' = <<>> /\ stop' = stop

execute_search(var_name, pattern) ==
    LET matches == search_file(var_name, pattern) IN
    /\ IF matches.ok
       THEN /\ res' = Ok
            /\ out' = IF matches.val = <<>> THEN <<Line("No matches found.", <<>>)>>
                      ELSE [i \in 1..Len(matches.val) |->
                               Line("{}: {}", <<matches.val[i][1], matches.val[i][2]>>)]
       ELSE res' = matches.err /\ out' = <<>>
    /\ UNCHANGED <<files, disk, stop>>
    /\ io' = NoCall

execute_replace(var_name, pattern, replacement) ==
    replace_file(var_name, pattern, replacement) /\ out' = <<>> /\ stop' = stop

execute_linecount(var_name) ==
    LET count == line_count(var_name) IN
    /\ IF count.ok
       THEN res' = Ok /\ out' = <<Line("{} lines", <<count.val>>)>>
       ELSE res' = count.err /\ out' = <<>>
    /\ UNCHANGED <<files, disk, stop>>
    /\ io' = NoCall

execute_copy(src, dst) ==
    /\ \E o \in copy_file(disk, src, dst) :
          /\ disk' = o.disk
          /\ io' = Call("copy_file", src, dst, o.ok)
          /\ res' = IF o.ok THEN Ok
                    ELSE RuntimeError("Failed to copy file '{}' to '{}': {}", <<src, dst>>)
    /\ out' = <<>>
    /\ UNCHANGED <<files, stop>>

execute_move(src, dst) ==
    /\ \E o \in move_file(disk, src, dst) :
          /\ disk' = o.disk
          /\ io' = Call("move_file", src, dst, o.ok)
          /\ res' = IF o.ok THEN Ok
                    ELSE RuntimeError("Failed to move file '{}' to '{}': {}", <<src, dst>>)
    /\ out' = <<>>
    /\ UNCHANGED <<files, stop>>

\* execute_remove also closing the variables bound to the removed file
execute_remove_closes_variables(filename) ==
    /\ \E o \in remove_file(disk, filename) :
          /\ disk' = o.disk
          /\ io' = Call("remove_file", filename, <<>>, o.ok)
          /\ res' = IF o.ok THEN Ok
                    ELSE RuntimeError("Failed to remove file '{}': {}", <<filename>>)
          /\ files' = IF o.ok
                      THEN [v \in DOMAIN files |->
                               IF files[v].filename = filename
                               THEN FileEntry(filename, files[v].content, FALSE)
                               ELSE files[v]]
                      ELSE files
    /\ out' = <<>>
    /\ stop' = stop

execute_remove(filename) ==
    /\ \E o \in remove_file(disk, filename) :
          /\ disk' = o.disk
          /\ io' = Call("remove_file", filename, <<>>, o.ok)
          /\ res' = IF o.ok THEN Ok
                    ELSE RuntimeError("Failed to remove file '{}': {}", <<filename>>)
    /\ out' = <<>>
    /\ UNCHANGED <<files, stop>>

execute_rename(var_name, new_filename) ==
    rename_file(var_name, new_filename) /\ out' = <<>> /\ stop' = stop

execute_listdir(path) ==
    /\ \E listing \in list_directory(disk, path) :
          /\ io' = Call("list_directory", path, <<>>, listing.ok)
          /\ IF listing.ok
             THEN /\ res' = Ok
                  /\ out' = IF listing.val = <<>> THEN <<Line("(empty directory)", <<>>)>>
                            ELSE [i \in 1..Len(listing.val) |-> Line("{}", <<listing.val[i]>>)]
             ELSE /\ res' = RuntimeError("Failed to list directory '{}': {}", <<path>>)
                  /\ out' = <<>>
    /\ UNCHANGED <<files, disk, stop>>

execute_dumpenv ==
    /\ \E order \in Perms(DOMAIN files) : out' = dump(order)
    /\ res' = Ok
    /\ io' = NoCall
    /\ UNCHANGED <<files, disk, stop>>

execute_help ==
    /\ out' = <<Line("{}", <<<<"h", "e", "l", "p">>>>)>>
    /\ res' = Ok
    /\ io' = NoCall
    /\ UNCHANGED <<files, disk, stop>>

execute_exit ==
    /\ stop' = TRUE
    /\ res' = Ok
    /\ io' = NoCall
    /\ out' = <<>>
    /\ UNCHANGED <<files, disk>>

execute_statement(stmt) ==
    /\ last' = stmt
    /\ CASE stmt.kind = "Open" -> execute_open(stmt.filename, stmt.var_name)
         [] stmt.kind = "Read" -> execute_read(stmt.var_name)
         [] stmt.kind = "Write" -> execute_write(stmt.var_name, stmt.text)
         [] stmt.kind = "Append" -> execute_append(stmt.var_name, stmt.text)
         [] stmt.kind = "Show" -> execute_show(stmt.var_name)
         [] stmt.kind = "Close" -> execute_close(stmt.var_name)
         [] stmt.kind = "Truncate" -> execute_truncate(stmt.var_name)
         [] stmt.kind = "Search" -> execute_search(stmt.var_name, stmt.pattern)
         [] stmt.kind = "Replace" -> execute_replace(stmt.var_name, stmt.pattern, stmt.replacement)
         [] stmt.kind = "LineCount" -> execute_linecount(stmt.var_name)
         [] stmt.kind = "Copy" -> execute_copy(stmt.source, stmt.destination)
         [] stmt.kind = "Move" -> execute_move(stmt.source, stmt.destination)
         [] stmt.kind = "Remove" -> execute_remove(stmt.filename)
         [] stmt.kind = "Rename" -> execute_rename(stmt.var_name, stmt.new_filename)
         [] stmt.kind = "ListDir" -> execute_listdir(stmt.path)
         [] stmt.kind = "DumpEnv" -> execute_dumpenv
         [] stmt.kind = "Help" -> execute_help
         [] stmt.kind = "Exit" -> execute_exit

\* the statement keeps every content within MaxContent
WithinBounds(stmt) ==
    LET open == stmt.var_name \in DOMAIN files /\ files[stmt.var_name].is_open
        entry == files[stmt.var_name]
        onDisk == IF entry.filename \in DOMAIN disk THEN disk[entry.filename] ELSE <<>>
    IN CASE stmt.kind = "Append" ->
              open => /\ Len(entry.content) + Len(stmt.text) <= MaxContent
                      /\ Len(onDisk) + Len(stmt.text) <= MaxContent
         [] stmt.kind = "Replace" ->
              (open /\ RegexValid(stmt.pattern)) =>
                  Len(replace_all(entry.content, stmt.pattern, stmt.replacement)) <= MaxContent
         [] OTHER -> TRUE

(***************************************************************************)
(* Spec: the Interpreter executes statements in any order.                 *)
(***************************************************************************)
InitDisks ==
    UNION {[S -> InitContents] : S \in SUBSET FileNames}

IdlePipe ==
    /\ source = <<>>
    /\ lexed = None
    /\ relexed = None
    /\ tokens = <<>>
    /\ parsed = None
    /\ idx = 0
    /\ pc = "idle"
    /\ status = -1

InitEnv ==
    /\ files = EmptyMap
    /\ res = Ok
    /\ io = NoCall
    /\ out = <<>>
    /\ last = NoStmt
    /\ stop = FALSE

Init ==
    /\ InitEnv
    /\ disk \in InitDisks
    /\ IdlePipe

\* one iteration of the loop of Interpreter::run: nothing executes once stop is set
Exec(stmt) == ~stop /\ WithinBounds(stmt) /\ execute_statement(stmt) /\ UNCHANGED pipeVars

StmtOpen == \E fn \in FileNames, v \in VarNames : Exec(OpenStmt(fn, v))
StmtRead == \E v \in VarNames : Exec(ReadStmt(v))
StmtWrite == \E v \in VarNames, t \in Texts : Exec(WriteStmt(v, t))
StmtAppend == \E v \in VarNames, t \in Texts : Exec(AppendStmt(v, t))
StmtShow == \E v \in VarNames : Exec(ShowStmt(v))
StmtClose == \E v \in VarNames : Exec(CloseStmt(v))
StmtTruncate == \E v \in VarNames : Exec(TruncateStmt(v))
StmtSearch == \E v \in VarNames, p \in Patterns : Exec(SearchStmt(v, p))
StmtReplace == \E v \in VarNames, p \in Patterns, r \in Replacements : Exec(ReplaceStmt(v, p, r))
StmtLineCount == \E v \in VarNames : Exec(LineCountStmt(v))
StmtCopy == \E s \in FileNames, d \in FileNames : Exec(CopyStmt(s, d))
StmtMove == \E s \in FileNames, d \in FileNames : Exec(MoveStmt(s, d))
StmtRemove == \E fn \in FileNames : Exec(RemoveStmt(fn))
StmtRename == \E v \in VarNames, fn \in FileNames : Exec(RenameStmt(v, fn))
StmtListDir == \E p \in Dirs \cup {<<"a">>} : Exec(ListDirStmt(p))
StmtDumpEnv == Exec(DumpEnvStmt)
StmtHelp == Exec(HelpStmt)
StmtExit == Exec(ExitStmt)

Next ==
    \/ StmtOpen \/ StmtRead \/ StmtWrite \/ StmtAppend \/ StmtShow \/ StmtClose
    \/ StmtTruncate \/ StmtSearch \/ StmtReplace \/ StmtLineCount \/ StmtCopy
    \/ StmtMove \/ StmtRemove \/ StmtRename \/ StmtListDir \/ StmtDumpEnv
    \/ StmtHelp \/ StmtExit

Spec == Init /\ [][Next]_vars

(***************************************************************************)
(* SpecAlias: the statements that go through the Environment, on two       *)
(* variables that may be bound to the same file.                           *)
(***************************************************************************)
AliasVars == {<<"f">>, <<"g">>}

AliasDisks == {EmptyMap, Put(EmptyMap, <<"a">>, <<"x">>)}

InitAlias ==
    /\ InitEnv
    /\ disk \in AliasDisks
    /\ IdlePipe

AliasOpen == \E fn \in FileNames, v \in AliasVars : Exec(OpenStmt(fn, v))
AliasRead == \E v \in AliasVars : Exec(ReadStmt(v))
AliasWrite == \E v \in AliasVars, t \in Texts : Exec(WriteStmt(v, t))
AliasAppend == \E v \in AliasVars, t \in Texts : Exec(AppendStmt(v, t))
AliasTruncate == \E v \in AliasVars : Exec(TruncateStmt(v))
AliasReplace == \E v \in AliasVars, p \in Patterns : Exec(ReplaceStmt(v, p, <<>>))
AliasRename == \E v \in AliasVars, fn \in FileNames : Exec(RenameStmt(v, fn))
AliasClose == \E v \in AliasVars : Exec(CloseStmt(v))

NextAlias ==
    \/ AliasOpen \/ AliasRead \/ AliasWrite \/ AliasAppend
    \/ AliasTruncate \/ AliasReplace \/ AliasRename \/ AliasClose

SpecAlias == InitAlias /\ [][NextAlias]_vars

(***************************************************************************)
(* tokens.rs: a Token is a TokenKind and the byte offset where it starts;  *)
(* val is the String carried by Identifier and String, empty otherwise.    *)
(***************************************************************************)
Token(kind, val, pos) == [kind |-> kind, pos |-> pos, val |-> val]

KeywordKinds ==
    {"Open", "Read", "Write", "Append", "Close", "Show", "Exit", "As", "Truncate", "Search",
     "Replace", "LineCount", "Copy", "Move", "Remove", "Rename", "ListDir", "DumpEnv", "Help"}

\* TokenKind::eq_ignore_value
eq_ignore_value(a, b) == a.kind = b.kind

(***************************************************************************)
(* Characters.  A char is the sequence of its UTF-8 bytes; pos counts      *)
(* bytes, as the usize offsets of the lexer do.                            *)
(***************************************************************************)
LowerLetters ==
    <<"a", "b", "c", "d", "e", "f", "g", "h", "i", "j", "k", "l", "m",
      "n", "o", "p", "q", "r", "s", "t", "u", "v", "w", "x", "y", "z">>
UpperLetters ==
    <<"A", "B", "C", "D", "E", "F", "G", "H", "I", "J", "K", "L", "M",
      "N", "O", "P", "Q", "R", "S", "T", "U", "V", "W", "X", "Y", "Z">>
Digits == {"0", "1", "2", "3", "4", "5", "6", "7", "8", "9"}

\* U+00E9 and U+00C9, the letter e with acute accent in lower and upper case
EAcute == <<"C3", "A9">>
EAcuteUpper == <<"C3", "89">>

\* char::len_utf8, from the first byte of the char
len_utf8(b) == IF b = "C3" THEN 2 ELSE 1

\* is_alphabetic taking '_' and the digits for letters
is_alphabetic_or_word_char(c) ==
    \/ Len(c) = 1 /\ \E i \in 1..26 : c[1] = LowerLetters[i] \/ c[1] = UpperLetters[i]
    \/ c \in {EAcute, EAcuteUpper}
    \/ c = <<"_">>
    \/ Len(c) = 1 /\ c[1] \in Digits

is_alphabetic(c) ==
    \/ Len(c) = 1 /\ \E i \in 1..26 : c[1] = LowerLetters[i] \/ c[1] = UpperLetters[i]
    \/ c \in {EAcute, EAcuteUpper}

is_alphanumeric(c) == is_alphabetic(c) \/ (Len(c) = 1 /\ c[1] \in Digits)

is_whitespace(c) == c \in {<<" ">>, <<"\t">>, <<"\r">>, <<"\n">>}

\* utils.rs
is_identifier_char(c) == is_alphanumeric(c) \/ c = <<"_">> \/ c = <<"-">> \/ c = <<".">>

\* str::to_lowercase
RECURSIVE to_lowercase(_)
to_lowercase(str) ==
    IF str = <<>> THEN <<>>
    ELSE IF len_utf8(Head(str)) = 2
         THEN (IF SubSeq(str, 1, 2) = EAcuteUpper THEN EAcute ELSE SubSeq(str, 1, 2))
              \o to_lowercase(SubSeq(str, 3, Len(str)))
         ELSE <<IF \E i \in 1..26 : UpperLetters[i] = Head(str)
                THEN LowerLetters[CHOOSE i \in 1..26 : UpperLetters[i] = Head(str)]
                ELSE Head(str)>>
              \o to_lowercase(Tail(str))

(***************************************************************************)
(* lexer.rs                                                                *)
(***************************************************************************)
LexError(msg, ch, pos) == [ch |-> ch, msg |-> msg, ok |-> FALSE, pos |-> pos]
NoLexError == [ch |-> <<>>, msg |-> "", ok |-> TRUE, pos |-> 0]

Lexer_is_at_end(input, pos) == pos >= Len(input)

\* self.input[self.pos..].chars().next().unwrap()
peek_char(input, pos) == SubSeq(input, pos + 1, pos + len_utf8(input[pos + 1]))

\* the position after Lexer::advance
Lexer_advance(input, pos) == pos + Len(peek_char(input, pos))

RECURSIVE skip_whitespace(_, _)
skip_whitespace(input, pos) ==
    IF Lexer_is_at_end(input, pos) THEN pos
    ELSE LET c == peek_char(input, pos) IN
         IF is_whitespace(c) /\ c # <<"\n">>
         THEN skip_whitespace(input, Lexer_advance(input, pos))
         ELSE pos

\* the loop of lex_string; start is the position after the opening quote
RECURSIVE lex_string_loop(_, _, _, _)
lex_string_loop(input, pos, start, result) ==
    IF Lexer_is_at_end(input, pos)
    THEN [err |-> LexError("Unterminated string starting at position {}", <<>>, start),
          ok |-> FALSE, pos |-> pos, val |-> <<>>]
    ELSE LET c == peek_char(input, pos) IN
         IF c = <<"\"">>
         THEN [err |-> NoLexError, ok |-> TRUE, pos |-> Lexer_advance(input, pos), val |-> result]
         ELSE lex_string_loop(input, Lexer_advance(input, pos), start, result \o c)

\* lex_string without the advance that consumes the opening quote
lex_string_keeps_quote(input, pos) == lex_string_loop(input, pos, pos, <<>>)
lex_string(input, pos) ==
    LET start == Lexer_advance(input, pos)
    IN lex_string_loop(input, start, start, <<>>)

RECURSIVE lex_identifier(_, _, _)
lex_identifier(input, pos, result) ==
    IF ~Lexer_is_at_end(input, pos) /\ is_identifier_char(peek_char(input, pos))
    THEN lex_identifier(input, Lexer_advance(input, pos), result \o peek_char(input, pos))
    ELSE [pos |-> pos, val |-> result]

\* lex_comment discarding the rest of the input, newlines included
lex_comment_to_end(input, pos) == Len(input)

RECURSIVE lex_comment(_, _)
lex_comment(input, pos) ==
    IF Lexer_is_at_end(input, pos) THEN pos
    ELSE IF peek_char(input, pos) = <<"\n">> THEN pos
    ELSE lex_comment(input, Lexer_advance(input, pos))

\* the match arms of ident_to_keyword_or_identifier
Keywords ==
    <<<<<<"o", "p", "e", "n">>, "Open">>,
      <<<<"r", "e", "a", "d">>, "Read">>,
      <<<<"w", "r", "i", "t", "e">>, "Write">>,
      <<<<"a", "p", "p", "e", "n", "d">>, "Append">>,
      <<<<"s", "h", "o", "w">>, "Show">>,
      <<<<"c", "l", "o", "s", "e">>, "Close">>,
      <<<<"e", "x", "i", "t">>, "Exit">>,
      <<<<"a", "s">>, "As">>,
      <<<<"t", "r", "u", "n", "c", "a", "t", "e">>, "Truncate">>,
      <<<<"s", "e", "a", "r", "c", "h">>, "Search">>,
      <<<<"r", "e", "p", "l", "a", "c", "e">>, "Replace">>,
      <<<<"l", "i", "n", "e", "c", "o", "u", "n", "t">>, "LineCount">>,
      <<<<"c", "o", "p", "y">>, "Copy">>,
      <<<<"m", "o", "v", "e">>, "Move">>,
      <<<<"r", "e", "m", "o", "v", "e">>, "Remove">>,
      <<<<"r", "e", "n", "a", "m", "e">>, "Rename">>,
      <<<<"l", "i", "s", "t", "d", "i", "r">>, "ListDir">>,
      <<<<"d", "u", "m", "p", "e", "n", "v">>, "DumpEnv">>,
      <<<<"h", "e", "l", "p">>, "Help">>>>

\* ident_to_keyword_or_identifier matching the text as written
ident_to_keyword_case_sensitive(ident) ==
    IF \E i \in 1..Len(Keywords) : Keywords[i][1] = ident
    THEN [kind |-> Keywords[CHOOSE i \in 1..Len(Keywords) : Keywords[i][1] = ident][2], val |-> <<>>]
    ELSE [kind |-> "Identifier", val |-> ident]

ident_to_keyword_or_identifier(ident) ==
    LET lower == to_lowercase(ident) IN
    IF \E i \in 1..Len(Keywords) : Keywords[i][1] = lower
    THEN [kind |-> Keywords[CHOOSE i \in 1..Len(Keywords) : Keywords[i][1] = lower][2], val |-> <<>>]
    ELSE [kind |-> "Identifier", val |-> ident]

\* the while loop of Lexer::lex, and the push after it
RECURSIVE lex_loop(_, _, _)
lex_loop(input, pos0, toks) ==
    IF Lexer_is_at_end(input, pos0)
    THEN [err |-> NoLexError, ok |-> TRUE,
          tokens |-> Append(toks, Token("EndOfStatement", <<>>, pos0))]
    ELSE LET pos == skip_whitespace(input, pos0) IN
         IF Lexer_is_at_end(input, pos)
         THEN [err |-> NoLexError, ok |-> TRUE,
               tokens |-> Append(toks, Token("EndOfStatement", <<>>, pos))]
         ELSE LET c == peek_char(input, pos) IN
              IF c = <<"\"">>
              THEN LET string_val == lex_string(input, pos) IN
                   IF ~string_val.ok
                   THEN [err |-> string_val.err, ok |-> FALSE, tokens |-> <<>>]
                   ELSE lex_loop(input, string_val.pos,
                                 Append(toks, Token("String", string_val.val, pos)))
              ELSE IF is_alphabetic(c)
              THEN LET ident == lex_identifier(input, pos, <<>>)
                       kind == ident_to_keyword_or_identifier(ident.val)
                   IN lex_loop(input, ident.pos, Append(toks, Token(kind.kind, kind.val, pos)))
              ELSE IF c = <<"\n">>
              THEN lex_loop(input, pos + 1, Append(toks, Token("EndOfStatement", <<>>, pos)))
              ELSE IF c = <<";">>
              THEN lex_loop(input, pos + 1, Append(toks, Token("EndOfStatement", <<>>, pos)))
              ELSE IF c = <<"#">>
              THEN lex_loop(input, lex_comment(input, pos), toks)
              ELSE [err |-> LexError("Unexpected character '{}' at position {}", c, pos),
                    ok |-> FALSE, tokens |-> <<>>]

\* lex with the final push made only when the last token is not an end of
\* statement already
lex_pushes_if_missing(input) ==
    LET r == lex_loop(input, 0, <<>>)
        n == Len(r.tokens)
    IN IF r.ok /\ n >= 2 /\ r.tokens[n - 1].kind = "EndOfStatement"
       THEN [err |-> r.err, ok |-> TRUE, tokens |-> SubSeq(r.tokens, 1, n - 1)]
       ELSE r
lex(input) == lex_loop(input, 0, <<>>)

(***************************************************************************)
(* parser.rs.  The parser state is the token vector and the cursor pos     *)
(* (an index into the vector, counted from 0); length is Len(toks) from    *)
(* the first line of parse on.                                             *)
(***************************************************************************)
NoToken == [kind |-> "none", val |-> <<>>]
TokenKind(tk) == [kind |-> tk.kind, val |-> tk.val]

\* ParseError::new(format!(msg, ..)): the token kind and the position the
\* message names, NoToken and -1 when it names none
ParseError(msg, found, pos) == [found |-> found, msg |-> msg, ok |-> FALSE, pos |-> pos]
NoParseError == [found |-> NoToken, msg |-> "", ok |-> TRUE, pos |-> -1]

Parser_is_at_end(toks, pos) == pos >= Len(toks)

peek_token(toks, pos) ==
    IF Parser_is_at_end(toks, pos) THEN toks[(Len(toks) - 1) + 1] ELSE toks[pos + 1]

current_position(pos) == pos

\* advance without the test of is_at_end: the cursor always moves, and past
\* the last token there is no token to return
Parser_advance_unchecked(toks, pos) ==
    [pos |-> pos + 1, val |-> IF pos + 1 <= Len(toks) THEN toks[pos + 1] ELSE NoToken]

\* advance: the cursor after the call and the token returned, tokens[pos - 1]
Parser_advance(toks, pos) ==
    LET next == IF ~Parser_is_at_end(toks, pos) THEN pos + 1 ELSE pos
    IN [pos |-> next, val |-> toks[(next - 1) + 1]]

\* match_token(&[kind]): whether it matched, and the cursor after the call
match_token(toks, pos, kind) ==
    IF Parser_is_at_end(toks, pos) THEN [ok |-> FALSE, pos |-> pos]
    ELSE IF eq_ignore_value(peek_token(toks, pos), [kind |-> kind])
         THEN [ok |-> TRUE, pos |-> Parser_advance(toks, pos).pos]
         ELSE [ok |-> FALSE, pos |-> pos]

\* check_end_of_statement answering true on any token
check_end_of_statement_any(toks, pos) == TRUE

check_end_of_statement(toks, pos) ==
    IF Parser_is_at_end(toks, pos) THEN TRUE
    ELSE peek_token(toks, pos).kind = "EndOfStatement"

consume_end_of_statement(toks, pos) ==
    IF check_end_of_statement(toks, pos)
    THEN [err |-> NoParseError, ok |-> TRUE, pos |-> Parser_advance(toks, pos).pos]
    ELSE IF Parser_is_at_end(toks, pos)
    THEN [err |-> NoParseError, ok |-> TRUE, pos |-> pos]
    ELSE [err |-> ParseError("Expected end of statement", NoToken, -1), ok |-> FALSE, pos |-> pos]

\* consume_expect_string taking any token
consume_expect_string_any(toks, pos, err_msg) ==
    IF Parser_is_at_end(toks, pos)
    THEN [err |-> ParseError(err_msg, NoToken, -1), ok |-> FALSE, pos |-> pos, val |-> <<>>]
    ELSE LET tk == Parser_advance(toks, pos) IN
         [err |-> NoParseError, ok |-> TRUE, pos |-> tk.pos, val |-> tk.val.val]
consume_expect_string(toks, pos, err_msg) ==
    IF Parser_is_at_end(toks, pos)
    THEN [err |-> ParseError(err_msg, NoToken, -1), ok |-> FALSE, pos |-> pos, val |-> <<>>]
    ELSE LET tk == Parser_advance(toks, pos) IN
         IF tk.val.kind = "String"
         THEN [err |-> NoParseError, ok |-> TRUE, pos |-> tk.pos, val |-> tk.val.val]
         ELSE [err |-> ParseError(err_msg, TokenKind(tk.val), -1), ok |-> FALSE,
               pos |-> tk.pos, val |-> <<>>]

consume_expect_token(toks, pos, expected, err_msg) ==
    IF Parser_is_at_end(toks, pos)
    THEN [err |-> ParseError(err_msg, NoToken, -1), ok |-> FALSE, pos |-> pos, val |-> <<>>]
    ELSE LET tk == Parser_advance(toks, pos) IN
         IF eq_ignore_value(tk.val, [kind |-> expected])
         THEN [err |-> NoParseError, ok |-> TRUE, pos |-> tk.pos, val |-> tk.val.val]
         ELSE [err |-> ParseError(err_msg, TokenKind(tk.val), -1), ok |-> FALSE,
               pos |-> tk.pos, val |-> <<>>]

consume_expect_identifier(toks, pos, err_msg) ==
    IF Parser_is_at_end(toks, pos)
    THEN [err |-> ParseError(err_msg, NoToken, -1), ok |-> FALSE, pos |-> pos, val |-> <<>>]
    ELSE LET tk == Parser_advance(toks, pos) IN
         IF tk.val.kind = "Identifier"
         THEN [err |-> NoParseError, ok |-> TRUE, pos |-> tk.pos, val |-> tk.val.val]
         ELSE [err |-> ParseError(err_msg, TokenKind(tk.val), -1), ok |-> FALSE,
               pos |-> tk.pos, val |-> <<>>]

\* one consume_expect_* call of a branch of parse_statement: e is <<kind, err_msg>>
consume_one(toks, pos, e) ==
    CASE e[1] = "String" -> consume_expect_string(toks, pos, e[2])
      [] e[1] = "Identifier" -> consume_expect_identifier(toks, pos, e[2])
      [] OTHER -> consume_expect_token(toks, pos, e[1], e[2])

\* The consume_expect_* calls of one branch of parse_statement, in order,
\* each followed by ?: expects is a sequence of <<kind, err_msg>>, the result
\* carries the values consumed and the cursor, or the first error.
RECURSIVE consume_all(_, _, _, _)
consume_next(toks, rest, vals, r) ==
    IF ~r.ok THEN [err |-> r.err, ok |-> FALSE, pos |-> r.pos, val |-> <<>>]
    ELSE consume_all(toks, r.pos, rest, Append(vals, r.val))

consume_all(toks, pos, expects, vals) ==
    IF expects = <<>> THEN [err |-> NoParseError, ok |-> TRUE, pos |-> pos, val |-> vals]
    ELSE consume_next(toks, Tail(expects), vals, consume_one(toks, pos, Head(expects)))

StmtOk(stmt, pos) == [err |-> NoParseError, ok |-> TRUE, pos |-> pos, stmt |-> stmt]
StmtErr(err, pos) == [err |-> err, ok |-> FALSE, pos |-> pos, stmt |-> NoStmt]

\* the Ok(Statement::..) of each branch of parse_statement: the statement
\* built from the values v consumed by the branch
Statement(kind, v) ==
    CASE kind = "Open" -> OpenStmt(v[1], v[3])
      [] kind = "Read" -> ReadStmt(v[1])
      [] kind = "Write" -> WriteStmt(v[1], v[2])
      [] kind = "Append" -> AppendStmt(v[1], v[2])
      [] kind = "Show" -> ShowStmt(v[1])
      [] kind = "Close" -> CloseStmt(v[1])
      [] kind = "Truncate" -> TruncateStmt(v[1])
      [] kind = "Search" -> SearchStmt(v[1], v[2])
      [] kind = "Replace" -> ReplaceStmt(v[1], v[2], v[3])
      [] kind = "LineCount" -> LineCountStmt(v[1])
      [] kind = "Copy" -> CopyStmt(v[1], v[2])
      [] kind = "Move" -> MoveStmt(v[1], v[2])
      [] kind = "Remove" -> RemoveStmt(v[1])
      [] kind = "Rename" -> RenameStmt(v[1], v[2])
      [] kind = "ListDir" -> ListDirStmt(v[1])

\* the end of a branch of parse_statement: a is what its consume_expect_* calls gave
branch(kind, a) ==
    IF a.ok THEN StmtOk(Statement(kind, a.val), a.pos) ELSE StmtErr(a.err, a.pos)

parse_statement(toks, pos) ==
    IF match_token(toks, pos, "Open").ok
    THEN branch("Open", consume_all(toks, pos + 1,
        <<<<"String", "Expected filename string after 'open'">>,
         <<"As", "Expected 'as' after filename in open statement">>,
         <<"Identifier", "Expected variable name after 'as'">>>>, <<>>))
    ELSE IF match_token(toks, pos, "Read").ok
    THEN branch("Read", consume_all(toks, pos + 1,
        <<<<"Identifier", "Expected variable name after 'read'">>>>, <<>>))
    ELSE IF match_token(toks, pos, "Write").ok
    THEN branch("Write", consume_all(toks, pos + 1,
        <<<<"Identifier", "Expected variable name after 'write'">>,
         <<"String", "Expected string after variable in 'write'">>>>, <<>>))
    ELSE IF match_token(toks, pos, "Append").ok
    THEN branch("Append", consume_all(toks, pos + 1,
        <<<<"Identifier", "Expected variable name after 'append'">>,
         <<"String", "Expected string after variable in 'append'">>>>, <<>>))
    ELSE IF match_token(toks, pos, "Show").ok
    THEN branch("Show", consume_all(toks, pos + 1,
        <<<<"Identifier", "Expected variable name after 'show'">>>>, <<>>))
    ELSE IF match_token(toks, pos, "Close").ok
    THEN branch("Close", consume_all(toks, pos + 1,
        <<<<"Identifier", "Expected variable name after 'close'">>>>, <<>>))
    ELSE IF match_token(toks, pos, "Truncate").ok
    THEN branch("Truncate", consume_all(toks, pos + 1,
        <<<<"Identifier", "Expected variable name after 'truncate'">>>>, <<>>))
    ELSE IF match_token(toks, pos, "Search").ok
    THEN branch("Search", consume_all(toks, pos + 1,
        <<<<"Identifier", "Expected variable name after 'search'">>,
         <<"String", "Expected pattern string after variable in 'search'">>>>, <<>>))
    ELSE IF match_token(toks, pos, "Replace").ok
    THEN branch("Replace", consume_all(toks, pos + 1,
        <<<<"Identifier", "Expected variable name after 'replace'">>,
         <<"String", "Expected pattern string after variable in 'replace'">>,
         <<"String", "Expected replacement string after pattern in 'replace'">>>>, <<>>))
    ELSE IF match_token(toks, pos, "LineCount").ok
    THEN branch("LineCount", consume_all(toks, pos + 1,
        <<<<"Identifier", "Expected variable name after 'linecount'">>>>, <<>>))
    ELSE IF match_token(toks, pos, "Copy").ok
    THEN branch("Copy", consume_all(toks, pos + 1,
        <<<<"String", "Expected source filename after 'copy'">>,
         <<"String", "Expected destination filename after source in 'copy'">>>>, <<>>))
    ELSE IF match_token(toks, pos, "Move").ok
    THEN branch("Move", consume_all(toks, pos + 1,
        <<<<"String", "Expected source filename after 'move'">>,
         <<"String", "Expected destination filename after source in 'move'">>>>, <<>>))
    ELSE IF match_token(toks, pos, "Remove").ok
    THEN branch("Remove", consume_all(toks, pos + 1,
        <<<<"String", "Expected filename after 'remove'">>>>, <<>>))
    ELSE IF match_token(toks, pos, "Rename").ok
    THEN branch("Rename", consume_all(toks, pos + 1,
        <<<<"Identifier", "Expected variable name after 'rename'">>,
         <<"String", "Expected new filename after variable in 'rename'">>>>, <<>>))
    ELSE IF match_token(toks, pos, "ListDir").ok
    THEN branch("ListDir", consume_all(toks, pos + 1,
        <<<<"String", "Expected directory path after 'listdir'">>>>, <<>>))
    ELSE IF match_token(toks, pos, "DumpEnv").ok THEN StmtOk(DumpEnvStmt, pos + 1)
    ELSE IF match_token(toks, pos, "Help").ok THEN StmtOk(HelpStmt, pos + 1)
    ELSE IF match_token(toks, pos, "Exit").ok THEN StmtOk(ExitStmt, pos + 1)
    ELSE StmtErr(ParseError("Unexpected token {:?} at position {}",
                            TokenKind(peek_token(toks, pos)), current_position(pos)), pos)

\* the while loop of Parser::parse
RECURSIVE parse_loop(_, _, _)
\* what the loop does with the result of parse_statement
parse_after_statement(toks, statements, stmt) ==
    IF ~stmt.ok THEN [ast |-> <<>>, err |-> stmt.err, ok |-> FALSE]
    ELSE IF ~Parser_is_at_end(toks, stmt.pos) /\ ~check_end_of_statement(toks, stmt.pos)
    THEN [ast |-> <<>>,
          err |-> ParseError("Expected end of statement at position {} but found {:?}",
                             TokenKind(peek_token(toks, stmt.pos)),
                             current_position(stmt.pos)),
          ok |-> FALSE]
    ELSE parse_loop(toks, consume_end_of_statement(toks, stmt.pos).pos,
                    Append(statements, stmt.stmt))

\* the loop of parse without the branch that consumes an end of statement
parse_loop_without_skip(toks, pos, statements) ==
    IF Parser_is_at_end(toks, pos) THEN [ast |-> statements, err |-> NoParseError, ok |-> TRUE]
    ELSE parse_after_statement(toks, statements, parse_statement(toks, pos))

parse_loop(toks, pos, statements) ==
    IF Parser_is_at_end(toks, pos) THEN [ast |-> statements, err |-> NoParseError, ok |-> TRUE]
    ELSE IF check_end_of_statement(toks, pos)
    THEN parse_loop(toks, consume_end_of_statement(toks, pos).pos, statements)
    ELSE parse_after_statement(toks, statements, parse_statement(toks, pos))

parse(toks) == parse_loop(toks, 0, <<>>)

(***************************************************************************)
(* SpecLex: Lexer::lex applied to a source text, then to the text obtained *)
(* by writing its tokens out again.                                        *)
(***************************************************************************)
SeqsUpTo(S, n) == UNION {[1..k -> S] : k \in 0..n}

\* open, Exit, f, F, e-acute, 1, _, "a;", a lone quote, backslash, space,
\* newline, ;, #
LexFragments ==
    {<<"o", "p", "e", "n">>,
     <<"E", "x", "i", "t">>,
     <<"f">>,
     <<"F">>,
     <<"_">>,
     <<"\\">>,
     <<"C3", "A9">>,
     <<"1">>,
     <<"\"", "a", ";", "\"">>,
     <<"\"">>,
     <<" ">>,
     <<"\n">>,
     <<";">>,
     <<"#">>}

LexInputs == {Flatten(fs) : fs \in SeqsUpTo(LexFragments, MaxLexFrags)}

Separators == {"\n", ";"}

\* the canonical spelling of a keyword: its match arm in ident_to_keyword_or_identifier
KeywordText(kind) == Keywords[CHOOSE i \in 1..Len(Keywords) : Keywords[i][2] = kind][1]

\* a token written as source text: keywords by their word, identifiers as
\* written, strings in double quotes, an end of statement as the separator
TokenText(tk, sep) ==
    CASE tk.kind = "Identifier" -> tk.val \o <<" ">>
      [] tk.kind = "String" -> <<"\"">> \o tk.val \o <<"\"", " ">>
      [] tk.kind = "EndOfStatement" -> <<sep>>
      [] OTHER -> KeywordText(tk.kind) \o <<" ">>

Serialize(toks, sep) == Flatten([i \in 1..Len(toks) |-> TokenText(toks[i], sep)])

IdleEnv ==
    /\ InitEnv
    /\ disk = EmptyMap

InitLex ==
    /\ IdleEnv
    /\ source \in LexInputs
    /\ lexed = None
    /\ relexed = None
    /\ tokens = <<>>
    /\ parsed = None
    /\ idx = 0
    /\ pc = "lex"
    /\ status = -1

LexSource ==
    /\ pc = "lex"
    /\ lexed' = lex(source)
    /\ pc' = IF lexed'.ok THEN "relex" ELSE "done"
    /\ UNCHANGED <<envVars, source, relexed, tokens, parsed, idx, status>>

Relex ==
    /\ pc = "relex"
    /\ \E sep \in Separators : relexed' = lex(Serialize(lexed.tokens, sep))
    /\ pc' = "done"
    /\ UNCHANGED <<envVars, source, lexed, tokens, parsed, idx, status>>

NextLex == LexSource \/ Relex

SpecLex == InitLex /\ [][NextLex]_vars

(***************************************************************************)
(* SpecParse: Parser::parse applied to a token vector.                     *)
(***************************************************************************)
FirstTokens ==
    {Token(k, <<>>, 0) : k \in KeywordKinds \cup {"EndOfStatement"}}
        \cup {Token("Identifier", <<"f">>, 0), Token("String", <<"a">>, 0)}

RestTokens ==
    {Token("Identifier", <<"f">>, 0), Token("String", <<"a">>, 0), Token("String", <<"b">>, 0),
     Token("As", <<>>, 0), Token("EndOfStatement", <<>>, 0), Token("Exit", <<>>, 0)}

ParseInputs ==
    {<<>>} \cup {<<h>> \o r : h \in FirstTokens, r \in SeqsUpTo(RestTokens, MaxTokens - 1)}

InitParse ==
    /\ IdleEnv
    /\ source = <<>>
    /\ lexed = None
    /\ relexed = None
    /\ tokens \in ParseInputs
    /\ parsed = None
    /\ idx = 0
    /\ pc = "parse"
    /\ status = -1

ParseTokens ==
    /\ pc = "parse"
    /\ parsed' = parse(tokens)
    /\ pc' = "done"
    /\ UNCHANGED <<envVars, source, lexed, relexed, tokens, idx, status>>

NextParse == ParseTokens

SpecParse == InitParse /\ [][NextParse]_vars

(***************************************************************************)
(* SpecMain: main.rs.  The source text is lexed, the tokens are parsed,    *)
(* and a new Interpreter runs the AST; status is the exit status of the    *)
(* process, -1 while it runs.                                              *)
(***************************************************************************)
MainFragments ==
    {<<"o", "p", "e", "n", " ", "\"", "a", "\"", " ", "a", "s", " ", "f", "\n">>,
     <<"w", "r", "i", "t", "e", " ", "f", " ", "\"", "x", "\"", ";">>,
     <<"s", "h", "o", "w", " ", "f", "\n">>,
     <<"c", "l", "o", "s", "e", " ", "f", ";">>,
     <<"e", "x", "i", "t", "\n">>,
     <<"r", "e", "m", "o", "v", "e", " ", "\"", "a", "\"", ";">>,
     <<"1">>,
     <<"\"">>,
     <<"a", "s", " ">>,
     <<"#", " ", "c", "\n">>,
     <<" ", ";", "\n">>}

MainSources == {Flatten(fs) : fs \in SeqsUpTo(MainFragments, MaxFrags)}

MainDisks == {EmptyMap, Put(EmptyMap, <<"a">>, <<"x">>)}

InitMain ==
    /\ InitEnv
    /\ disk \in MainDisks
    /\ source \in MainSources
    /\ lexed = None
    /\ relexed = None
    /\ tokens = <<>>
    /\ parsed = None
    /\ idx = 0
    /\ pc = "lex"
    /\ status = -1

\* main going on to the parser whatever lex returned
main_lex_always_ok(l) == TRUE

\* match lexer.lex(): Err exits with status 1
main_lex_ok(l) == l.ok

\* match parser.parse(): Err exits with status 1
main_parse_ok(r) == r.ok

\* the loop of run without the test of stop
run_ignores_stop(ast, i, stopped) == i < Len(ast)

\* the head of the loop of run: there is a next statement and stop is not set
run_continues(ast, i, stopped) == i < Len(ast) /\ ~stopped

\* execute_statement(stmt) without the ?
run_swallows_error(r) == FALSE

\* the ? after execute_statement: an Err leaves run, and main exits with status 1
run_propagates(r) == ~r.ok

MainLex ==
    /\ pc = "lex"
    /\ lexed' = lex(source)
    /\ IF main_lex_ok(lexed')
       THEN tokens' = lexed'.tokens /\ pc' = "parse" /\ status' = status
       ELSE tokens' = tokens /\ pc' = "exited" /\ status' = 1
    /\ UNCHANGED <<envVars, source, relexed, parsed, idx>>

MainParse ==
    /\ pc = "parse"
    /\ parsed' = parse(tokens)
    /\ IF main_parse_ok(parsed')
       THEN pc' = "run" /\ status' = status
       ELSE pc' = "exited" /\ status' = 1
    /\ UNCHANGED <<envVars, source, lexed, relexed, tokens, idx>>

RunStep ==
    /\ pc = "run"
    /\ run_continues(parsed.ast, idx, stop)
    /\ execute_statement(parsed.ast[idx + 1])
    /\ idx' = idx + 1
    /\ IF run_propagates(res')
       THEN pc' = "exited" /\ status' = 1
       ELSE pc' = "run" /\ status' = status
    /\ UNCHANGED <<source, lexed, relexed, tokens, parsed>>

\* if self.stop { break; }, then Ok(()) and main returns
RunBreak ==
    /\ pc = "run"
    /\ idx < Len(parsed.ast)
    /\ ~run_continues(parsed.ast, idx, stop)
    /\ pc' = "exited"
    /\ status' = 0
    /\ UNCHANGED <<envVars, source, lexed, relexed, tokens, parsed, idx>>

\* the loop ran out of statements, then Ok(()) and main returns
RunEnd ==
    /\ pc = "run"
    /\ idx = Len(parsed.ast)
    /\ pc' = "exited"
    /\ status' = 0
    /\ UNCHANGED <<envVars, source, lexed, relexed, tokens, parsed, idx>>

NextMain == MainLex \/ MainParse \/ RunStep \/ RunBreak \/ RunEnd

SpecMain == InitMain /\ [][NextMain]_vars

(***************************************************************************)
(* SpecScript: main.rs run on scripts that open "t.txt" as f and go on     *)
(* with up to MaxScript statements on f, from an empty directory.          *)
(***************************************************************************)
MaxScript == 3

TFile == <<"t", ".", "t", "x", "t">>
AlphaBeta == <<"a", "l", "p", "h", "a", "\n", "b", "e", "t", "a">>
FooBarFoo == <<"f", "o", "o", " ", "b", "a", "r", " ", "f", "o", "o">>
BazBarBaz == <<"b", "a", "z", " ", "b", "a", "r", " ", "b", "a", "z">>

OpenLine ==
    <<"o", "p", "e", "n", " ", "\"">> \o TFile \o <<"\"", " ", "a", "s", " ", "f", "\n">>
WriteAlphaBetaLine ==
    <<"w", "r", "i", "t", "e", " ", "f", " ", "\"">> \o AlphaBeta \o <<"\"", "\n">>
LineCountLine == <<"l", "i", "n", "e", "c", "o", "u", "n", "t", " ", "f", "\n">>
WriteFooBarFooLine ==
    <<"w", "r", "i", "t", "e", " ", "f", " ", "\"">> \o FooBarFoo \o <<"\"", "\n">>
ReplaceFooBazLine ==
    <<"r", "e", "p", "l", "a", "c", "e", " ", "f", " ", "\"", "f", "o", "o", "\"", " ",
      "\"", "b", "a", "z", "\"", "\n">>
ShowLine == <<"s", "h", "o", "w", " ", "f", "\n">>
SearchBeLine == <<"s", "e", "a", "r", "c", "h", " ", "f", " ", "\"", "b", "e", "\"", "\n">>
AppendNewlineLine == <<"a", "p", "p", "e", "n", "d", " ", "f", " ", "\"", "\n", "\"", "\n">>
ReplaceInvalidLine ==
    <<"r", "e", "p", "l", "a", "c", "e", " ", "f", " ", "\"", "(", "\"", " ", "\"", "x", "\"", "\n">>
SearchALine == <<"s", "e", "a", "r", "c", "h", " ", "f", " ", "\"", "a", "\"", "\n">>
ExitLine == <<"e", "x", "i", "t", "\n">>

ScriptFragments ==
    {WriteAlphaBetaLine, LineCountLine, WriteFooBarFooLine, ReplaceFooBazLine, ShowLine,
     SearchBeLine, SearchALine, AppendNewlineLine, ReplaceInvalidLine, ExitLine}

ScriptSources == {OpenLine \o Flatten(fs) : fs \in SeqsUpTo(ScriptFragments, MaxScript)}

InitScript ==
    /\ InitEnv
    /\ disk = EmptyMap
    /\ source \in ScriptSources
    /\ lexed = None
    /\ relexed = None
    /\ tokens = <<>>
    /\ parsed = None
    /\ idx = 0
    /\ pc = "lex"
    /\ status = -1

SpecScript == InitScript /\ [][NextMain]_vars

(***************************************************************************)
(* SpecRuns: one Interpreter on which run is called again and again, each  *)
(* time with an AST of up to MaxRun statements; status is what the last    *)
(* call returned, 0 for Ok(()) and 1 for Err.                              *)
(***************************************************************************)
MaxRun == 2

RunStatements ==
    {OpenStmt(<<"a">>, <<"f">>), WriteStmt(<<"f">>, <<"x">>), ShowStmt(<<"f">>), ExitStmt}

Programs == SeqsUpTo(RunStatements, MaxRun)

InitRuns ==
    /\ InitEnv
    /\ disk = EmptyMap
    /\ IdlePipe

\* run starting with stop set to false
run_resets_stop(stopped) == FALSE

\* the value of self.stop when run starts: what the calls before left
run_enter(stopped) == stopped

CallRun ==
    /\ pc \in {"idle", "exited"}
    /\ \E ast \in Programs : parsed' = [ast |-> ast, err |-> NoParseError, ok |-> TRUE]
    /\ idx' = 0
    /\ pc' = "run"
    /\ status' = -1
    /\ stop' = run_enter(stop)
    /\ UNCHANGED <<files, disk, res, io, out, last, source, lexed, relexed, tokens>>

NextRuns == CallRun \/ RunStep \/ RunBreak \/ RunEnd

SpecRuns == InitRuns /\ [][NextRuns]_vars

(***************************************************************************)
(* Properties of the Environment, checked under Spec.  In a step of Spec   *)
(* the unprimed variables are the state before the statement last' and     *)
(* the primed ones the state after it.                                     *)
(***************************************************************************)
ContentOps ==
    {"Read", "Write", "Append", "Show", "Truncate", "Search", "Replace", "LineCount", "Rename"}

IsOpen(fs, v) == v \in DOMAIN fs /\ fs[v].is_open

\* C1: open_file(v, fn) succeeds exactly when v is absent or closed; after
\* success v is open on fn with empty content; on an open v it fails with
\* "already has an open file" and the environment is unchanged.
C1_OpenFile ==
    [][last'.kind = "Open" =>
         LET v == last'.var_name
             fn == last'.filename
         IN /\ res'.ok <=> ~IsOpen(files, v)
            /\ ~IsOpen(files, v) =>
                  /\ v \in DOMAIN files'
                  /\ files'[v] = FileEntry(fn, <<>>, TRUE)
            /\ IsOpen(files, v) =>
                  /\ res' = AlreadyOpen(v)
                  /\ files' = files]_vars

\* an open refused on a variable that is open and holds content
C1_Witness ==
    /\ last.kind = "Open"
    /\ res = AlreadyOpen(last.var_name)
    /\ IsOpen(files, last.var_name)
    /\ files[last.var_name].content # <<>>

\* C2: a content operation on an absent variable fails with "No such
\* variable", on a closed variable with "file is not open"; it makes no disk
\* call, prints nothing and leaves environment and disk unchanged.
C2_ContentOpNeedsOpen ==
    [][(last'.kind \in ContentOps /\ ~IsOpen(files, last'.var_name)) =>
         LET v == last'.var_name
         IN /\ res' = IF v \in DOMAIN files THEN NotOpenError(v) ELSE NoSuchVariable(v)
            /\ io' = NoCall
            /\ out' = <<>>
            /\ files' = files
            /\ disk' = disk]_vars

\* show on a variable that was opened and then closed
C2_Witness ==
    /\ last.kind = "Show"
    /\ last.var_name \in DOMAIN files
    /\ ~files[last.var_name].is_open
    /\ res = NotOpenError(last.var_name)

\* C3: when the disk call of read, write, append, truncate, replace or rename
\* fails the statement returns a runtime error and the environment is
\* unchanged; a statement that made a disk call succeeds only if the call did.
C3_NoPartialMutation ==
    [][(last'.kind \in {"Read", "Write", "Append", "Truncate", "Replace", "Rename"}
        /\ io'.call # "none") =>
         /\ ~io'.ok => (~res'.ok /\ files' = files)
         /\ res'.ok => io'.ok]_vars

\* a write whose disk call failed after emptying the file, memory still
\* holding the content from before
C3_Witness ==
    /\ last.kind = "Write"
    /\ io.call = "write_to_file" /\ ~io.ok
    /\ ~res.ok
    /\ files[last.var_name].content # last.text
    /\ files[last.var_name].filename \in DOMAIN disk
    /\ disk[files[last.var_name].filename] = <<>>

\* C4: after a successful read, write, append, truncate or replace on v the
\* in-memory content of v equals the content on disk of v's file.
C4_ContentAuthoritative ==
    (last.kind \in {"Read", "Write", "Append", "Truncate", "Replace"} /\ res.ok) =>
        LET e == files[last.var_name]
        IN e.filename \in DOMAIN disk /\ e.content = disk[e.filename]


(***************************************************************************)
(* Properties of the run loop and of main, checked under SpecMain.         *)
(***************************************************************************)

\* C5: once an exit statement has been executed, no later statement of the
\* program is executed: the environment, the disk and the output stay as
\* they are, whatever the next statement is, and the only step left is the
\* return of run with success, which ends the process with status 0.
C5_NothingAfterExit ==
    [][stop => /\ UNCHANGED <<files, disk, out, res, io, last, idx>>
               /\ pc' = "exited"
               /\ status' = 0]_vars

\* exit was executed, run returned success, and the statement after exit,
\* show of a variable that was never opened, would have failed
C5_Witness ==
    /\ pc = "exited"
    /\ stop
    /\ status = 0
    /\ idx < Len(parsed.ast)
    /\ parsed.ast[idx].kind = "Exit"
    /\ parsed.ast[idx + 1].kind = "Show"
    /\ parsed.ast[idx + 1].var_name \notin DOMAIN files

\* C6: statements are executed one at a time in AST order; a statement is
\* executed only if every statement before it succeeded; a failing
\* statement ends run at once with its error (status 1), and nothing
\* changes the environment or the disk after it, so that what the earlier
\* statements did is kept.
C6_PrefixThenAbort ==
    [][/\ idx' # idx => /\ idx' = idx + 1
                        /\ last' = parsed.ast[idx']
                        /\ res.ok
                        /\ (~res'.ok => pc' = "exited" /\ status' = 1)
       /\ idx' = idx => UNCHANGED envVars
       /\ ~res.ok => UNCHANGED <<envVars, idx, pc, status>>]_vars

\* the second statement failed after the first one opened a file: the
\* process ended with status 1, the third statement was not executed and
\* the file opened by the first is still in the environment
C6_Witness ==
    /\ pc = "exited"
    /\ status = 1
    /\ ~res.ok
    /\ idx = 2
    /\ Len(parsed.ast) = 3
    /\ parsed.ast[1].kind = "Open"
    /\ last = parsed.ast[2]
    /\ parsed.ast[1].var_name \in DOMAIN files

\* C7: no statement is executed unless the whole source text lexes and the
\* whole token stream parses: lexing and parsing leave the environment and
\* the disk alone, a statement is executed only after both succeeded, and
\* the process ends with status 0 exactly when lexing, parsing and every
\* executed statement succeeded, and with status 1 otherwise.
C7_AllOrNothing ==
    [][/\ pc \in {"lex", "parse"} => UNCHANGED <<envVars, idx>>
       /\ idx' # idx => (lexed.ok /\ parsed.ok)
       /\ pc' = "exited" =>
            status' = IF lexed'.ok /\ parsed'.ok /\ res'.ok THEN 0 ELSE 1]_vars

\* a script whose first statement is a valid open and which then fails to
\* parse: the process ended with status 1 and nothing was executed
C7_Witness ==
    /\ pc = "exited"
    /\ status = 1
    /\ lexed.ok
    /\ ~parsed.ok
    /\ Len(tokens) > 5
    /\ parse(SubSeq(tokens, 1, 5)).ok
    /\ tokens[1].kind = "Open"
    /\ files = EmptyMap
    /\ last = NoStmt

(***************************************************************************)
(* Properties of the lexer, checked under SpecLex.                         *)
(***************************************************************************)
SameKindAndPayload(a, b) == a.kind = b.kind /\ a.val = b.val

\* C8: writing the tokens of a lexed text out again (keywords in their
\* canonical spelling, identifiers as written, strings in double quotes,
\* each end of statement as a separator character) and lexing that text
\* yields a token sequence of the same length with the same kinds and
\* payloads.
C8_RoundTripSameLength ==
    relexed # None =>
        /\ relexed.ok
        /\ Len(relexed.tokens) = Len(lexed.tokens)
        /\ \A i \in 1..Len(lexed.tokens) : SameKindAndPayload(relexed.tokens[i], lexed.tokens[i])

\* C8, amended: lexing the text written out from the tokens yields the same
\* kinds and payloads followed by exactly one more end-of-statement token,
\* the one lex appends after the last character.
C8_RoundTripPlusEndOfStatement ==
    relexed # None =>
        /\ relexed.ok
        /\ Len(relexed.tokens) = Len(lexed.tokens) + 1
        /\ \A i \in 1..Len(lexed.tokens) : SameKindAndPayload(relexed.tokens[i], lexed.tokens[i])
        /\ relexed.tokens[Len(relexed.tokens)].kind = "EndOfStatement"

\* a text with a keyword not in its canonical spelling, a string holding a
\* separator and an identifier with a two-byte character was lexed, written
\* out and lexed again
C8_Witness ==
    /\ relexed # None
    /\ Len(lexed.tokens) = 4
    /\ lexed.tokens[1].kind = "Exit"
    /\ source[1] = "E"
    /\ lexed.tokens[2] = Token("String", <<"a", ";">>, 4)
    /\ lexed.tokens[3].kind = "Identifier"
    /\ lexed.tokens[3].val = EAcute

\* the state in which each character of src is read, "code" before the first
ModeAt(src, i) ==
    LET RECURSIVE mode(_)
        mode(k) ==
            IF k = 1 THEN "code"
            ELSE LET m == mode(k - 1)
                     c == src[k - 1]
                 IN CASE m = "code" -> IF c = "\"" THEN "string"
                                       ELSE IF c = "#" THEN "comment" ELSE "code"
                      [] m = "string" -> IF c = "\"" THEN "code" ELSE "string"
                      [] m = "comment" -> IF c = "\n" THEN "code" ELSE "comment"
    IN mode(i)

EndsInTwoEndOfStatement(toks) ==
    /\ Len(toks) >= 2
    /\ toks[Len(toks)].kind = "EndOfStatement"
    /\ toks[Len(toks) - 1].kind = "EndOfStatement"

\* C9: a text that lexes without error yields a token stream whose last
\* token is an end of statement at the offset of the end of the text; a
\* text whose last character is a newline or a ';' yields two end-of-
\* statement tokens at its end; the empty text yields exactly one token.
C9_TrailingEndOfStatement ==
    (lexed # None /\ lexed.ok) =>
        LET toks == lexed.tokens IN
        /\ Len(toks) >= 1
        /\ toks[Len(toks)] = Token("EndOfStatement", <<>>, Len(source))
        /\ (source # <<>> /\ source[Len(source)] \in {"\n", ";"}) => EndsInTwoEndOfStatement(toks)
        /\ source = <<>> => Len(toks) = 1

\* C9, amended: as above, but a text whose last character is a ';' yields
\* two end-of-statement tokens at its end only if that ';' is not inside a
\* comment; if it is, the ';' yields no token.
C9_TrailingEndOfStatementOutsideComment ==
    (lexed # None /\ lexed.ok) =>
        LET toks == lexed.tokens
            n == Len(source)
        IN
        /\ Len(toks) >= 1
        /\ toks[Len(toks)] = Token("EndOfStatement", <<>>, n)
        /\ (n > 0 /\ source[n] = "\n") => EndsInTwoEndOfStatement(toks)
        /\ (n > 0 /\ source[n] = ";" /\ ModeAt(source, n) = "code") => EndsInTwoEndOfStatement(toks)
        /\ (n > 0 /\ source[n] = ";" /\ ModeAt(source, n) = "comment") =>
               (Len(toks) >= 2 => toks[Len(toks) - 1].pos < n - 1)
        /\ n = 0 => Len(toks) = 1

\* a text ending in a ';' outside a comment was lexed: an identifier, the
\* end of statement of the ';' and the one appended at the end
C9_Witness ==
    /\ lexed # None
    /\ lexed.ok
    /\ Len(source) = 2
    /\ source[2] = ";"
    /\ Len(lexed.tokens) = 3
    /\ lexed.tokens[2] = Token("EndOfStatement", <<>>, 1)
    /\ lexed.tokens[3] = Token("EndOfStatement", <<>>, 2)

(***************************************************************************)
(* Properties of the parser, checked under SpecParse.                      *)
(***************************************************************************)
StatementKinds == KeywordKinds \ {"As"}

\* the grammar table: the tokens that must follow each keyword
Shape(kind) ==
    CASE kind = "Open" -> <<"String", "As", "Identifier">>
      [] kind \in {"Read", "Show", "Close", "Truncate", "LineCount"} -> <<"Identifier">>
      [] kind \in {"Write", "Append", "Rename", "Search"} -> <<"Identifier", "String">>
      [] kind = "Replace" -> <<"Identifier", "String", "String">>
      [] kind \in {"Copy", "Move"} -> <<"String", "String">>
      [] kind \in {"Remove", "ListDir"} -> <<"String">>
      [] kind \in {"DumpEnv", "Help", "Exit"} -> <<>>

\* the statements of a token stream: its maximal runs of tokens other than
\* end of statement, in order
RECURSIVE Statements(_, _, _)
Statements(toks, cur, acc) ==
    IF toks = <<>> THEN (IF cur = <<>> THEN acc ELSE Append(acc, cur))
    ELSE IF Head(toks).kind = "EndOfStatement"
         THEN Statements(Tail(toks), <<>>, IF cur = <<>> THEN acc ELSE Append(acc, cur))
         ELSE Statements(Tail(toks), Append(cur, Head(toks)), acc)

FollowsGrammar(g) ==
    /\ g[1].kind \in StatementKinds
    /\ Len(g) = 1 + Len(Shape(g[1].kind))
    /\ \A i \in 1..Len(Shape(g[1].kind)) : g[i + 1].kind = Shape(g[1].kind)[i]

\* the statement a run of tokens that follows the grammar stands for
StatementOf(g) ==
    LET k == g[1].kind IN
    CASE k = "Open" -> [filename |-> g[2].val, kind |-> k, var_name |-> g[4].val]
      [] k \in {"Read", "Show", "Close", "Truncate", "LineCount"} -> [kind |-> k, var_name |-> g[2].val]
      [] k \in {"Write", "Append"} -> [kind |-> k, text |-> g[3].val, var_name |-> g[2].val]
      [] k = "Rename" -> [kind |-> k, new_filename |-> g[3].val, var_name |-> g[2].val]
      [] k = "Search" -> [kind |-> k, pattern |-> g[3].val, var_name |-> g[2].val]
      [] k = "Replace" -> [kind |-> k, pattern |-> g[3].val, replacement |-> g[4].val,
                           var_name |-> g[2].val]
      [] k \in {"Copy", "Move"} -> [destination |-> g[3].val, kind |-> k, source |-> g[2].val]
      [] k = "Remove" -> [filename |-> g[2].val, kind |-> k]
      [] k = "ListDir" -> [kind |-> k, path |-> g[2].val]
      [] k \in {"DumpEnv", "Help", "Exit"} -> [kind |-> k]

\* C10: parse succeeds exactly when every statement of the token stream
\* follows the grammar table, and then the AST holds one statement per
\* statement of the stream, in order, each field being the payload of the
\* token at its place; every other token stream is a parse error.
C10_ParserFollowsGrammar ==
    parsed # None =>
        LET gs == Statements(tokens, <<>>, <<>>) IN
        /\ parsed.ok <=> \A i \in 1..Len(gs) : FollowsGrammar(gs[i])
        /\ parsed.ok => /\ Len(parsed.ast) = Len(gs)
                        /\ \A i \in 1..Len(gs) : parsed.ast[i] = StatementOf(gs[i])

\* a stream of two statements was parsed: show f, then exit
C10_Witness ==
    /\ parsed # None
    /\ parsed.ok
    /\ Len(tokens) = 4
    /\ parsed.ast = <<ShowStmt(<<"f">>), ExitStmt>>


\* a run of tokens that is a complete statement followed by at least one more token
StatementThenMore(g) ==
    /\ g[1].kind \in StatementKinds
    /\ Len(g) > 1 + Len(Shape(g[1].kind))
    /\ \A i \in 1..Len(Shape(g[1].kind)) : g[i + 1].kind = Shape(g[1].kind)[i]

\* the first statement of the stream that does not follow the grammar, 0 if none
FirstBad(gs) ==
    IF \A i \in 1..Len(gs) : FollowsGrammar(gs[i]) THEN 0
    ELSE CHOOSE i \in 1..Len(gs) :
            ~FollowsGrammar(gs[i]) /\ \A j \in 1..(i - 1) : FollowsGrammar(gs[j])

\* C11: when the first statement of the stream that is not well formed is a
\* complete statement followed by a token that is neither an end of statement
\* nor the end of the vector, parse fails with the 'Expected end of statement'
\* error, which names the token found there, and returns no AST.
C11_ExpectedEndOfStatement ==
    parsed # None =>
        LET gs == Statements(tokens, <<>>, <<>>)
            b == FirstBad(gs)
        IN (b > 0 /\ StatementThenMore(gs[b])) =>
              /\ ~parsed.ok
              /\ parsed.ast = <<>>
              /\ parsed.err.msg = "Expected end of statement at position {} but found {:?}"
              /\ parsed.err.found = TokenKind(gs[b][2 + Len(Shape(gs[b][1].kind))])

\* show f "a" was parsed: the extra argument is refused
C11_Witness ==
    /\ parsed # None
    /\ Len(tokens) = 3
    /\ tokens[1].kind = "Show"
    /\ tokens[2].kind = "Identifier"
    /\ tokens[3].kind = "String"
    /\ ~parsed.ok
    /\ parsed.err.found = [kind |-> "String", val |-> <<"a">>]


(***************************************************************************)
(* Properties of the errors of the parser and of the lexer, on the tokens  *)
(* the lexer gives for a script (SpecMain) or a text (SpecLex).            *)
(***************************************************************************)

\* C12: a parse error names the token found and the offset of that token in
\* the source text, the offset the lexer stored in the token: some token of
\* the stream has the kind and payload the error names and the offset the
\* error names.
C12_ParseErrorNamesOffset ==
    (parsed # None /\ ~parsed.ok) =>
        \E i \in 1..Len(tokens) :
            /\ TokenKind(tokens[i]) = parsed.err.found
            /\ tokens[i].pos = parsed.err.pos


\* the place in src (counted from 1) of the double quote that opens the
\* string literal still open at the end of src
OpeningQuote(src) ==
    CHOOSE i \in 1..Len(src) :
        /\ src[i] = "\""
        /\ ModeAt(src, i) = "code"
        /\ \A j \in (i + 1)..(Len(src) + 1) : ModeAt(src, j) = "string"

\* C13: the 'Unterminated string' error carries the offset of the opening
\* quote of the string literal that the end of the input leaves open, the
\* offset a String token for that literal would carry.
C13_UnterminatedNamesOpeningQuote ==
    (lexed # None /\ ~lexed.ok
        /\ lexed.err.msg = "Unterminated string starting at position {}") =>
            lexed.err.pos = OpeningQuote(source) - 1


\* a byte of a word: of a letter, of a digit, or one of _ - .
WordByte(b) == is_identifier_char(<<b>>) \/ b \in {"C3", "A9", "89"}

\* the place in src of the last byte of the word that starts at place start
WordEnd(src, start) ==
    CHOOSE e \in start..Len(src) :
        /\ \A k \in start..e : WordByte(src[k])
        /\ e = Len(src) \/ ~WordByte(src[e + 1])

\* C14: the token of a word is the keyword token whose spelling is the
\* lower-cased word, whatever the casing of the word, and without payload;
\* a word whose lower-cased text is no keyword gives an Identifier token
\* whose payload is the word in its original case.
C14_KeywordsIgnoreCase ==
    (lexed # None /\ lexed.ok) =>
        \A i \in 1..Len(lexed.tokens) :
            LET t == lexed.tokens[i] IN
            t.kind \notin {"String", "EndOfStatement"} =>
                LET w == SubSeq(source, t.pos + 1, WordEnd(source, t.pos + 1))
                    lw == to_lowercase(w)
                IN IF \E k \in KeywordKinds : KeywordText(k) = lw
                   THEN t.kind \in KeywordKinds /\ KeywordText(t.kind) = lw /\ t.val = <<>>
                   ELSE t.kind = "Identifier" /\ t.val = w

\* the text Exit F was lexed: the keyword exit, then the identifier F
C14_Witness ==
    /\ lexed # None
    /\ lexed.ok
    /\ source = <<"E", "x", "i", "t", " ", "F">>
    /\ lexed.tokens[1] = Token("Exit", <<>>, 0)
    /\ lexed.tokens[2] = Token("Identifier", <<"F">>, 5)


\* q is the place in src of the first double quote after place i
NextQuote(src, i, q) ==
    /\ q > i
    /\ src[q] = "\""
    /\ \A k \in (i + 1)..(q - 1) : src[k] # "\""

\* C15: a String token starts at a double quote, its payload is exactly the
\* bytes between that quote and the next double quote, whatever they are
\* (newline, ';', '#', whitespace, backslash), and no token starts between
\* the two quotes.
C15_StringVerbatim ==
    (lexed # None /\ lexed.ok) =>
        \A i \in 1..Len(lexed.tokens) :
            LET t == lexed.tokens[i] IN
            t.kind = "String" =>
                /\ t.pos < Len(source)
                /\ source[t.pos + 1] = "\""
                /\ \E q \in 1..Len(source) :
                       /\ NextQuote(source, t.pos + 1, q)
                       /\ t.val = SubSeq(source, t.pos + 2, q - 1)
                       /\ \A j \in 1..Len(lexed.tokens) :
                              ~(lexed.tokens[j].pos > t.pos /\ lexed.tokens[j].pos < q)

\* a string holding a backslash just before its closing quote was lexed: one
\* String token, then the end of statement appended at the end
C15_Witness ==
    /\ lexed # None
    /\ lexed.ok
    /\ source = <<"\"", "\\", "\"">>
    /\ lexed.tokens = <<Token("String", <<"\\">>, 0), Token("EndOfStatement", <<>>, 3)>>


\* the tokens that start at place k of the source text
TokensAt(k) == {j \in 1..Len(lexed.tokens) : lexed.tokens[j].pos = k - 1}

\* C16: outside strings and comments each newline and each ';' gives exactly
\* one end-of-statement token and any other whitespace gives no token; from
\* a '#' to the next newline no character gives a token, whatever it is, and
\* the newline that ends the comment gives its end-of-statement token.
C16_SeparatorsAndComments ==
    (lexed # None /\ lexed.ok) =>
        \A k \in 1..Len(source) :
            LET c == source[k]
                m == ModeAt(source, k)
            IN
            /\ ((m = "code" /\ c \in {"\n", ";"}) \/ (m = "comment" /\ c = "\n")) =>
                   /\ Cardinality(TokensAt(k)) = 1
                   /\ \A j \in TokensAt(k) : lexed.tokens[j].kind = "EndOfStatement"
            /\ (m = "code" /\ c \in {" ", "\t", "\r", "#"}) => TokensAt(k) = {}
            /\ (m = "comment" /\ c # "\n") => TokensAt(k) = {}

\* a comment holding a ';' and ended by a newline was lexed: the ';' gives no
\* token, the newline gives one, and one more is appended at the end
C16_Witness ==
    /\ lexed # None
    /\ lexed.ok
    /\ source = <<"#", ";", "\n">>
    /\ lexed.tokens = <<Token("EndOfStatement", <<>>, 2), Token("EndOfStatement", <<>>, 3)>>


\* a byte of a letter
LetterByte(b) ==
    \/ \E i \in 1..26 : b = LowerLetters[i] \/ b = UpperLetters[i]
    \/ b \in {"C3", "A9", "89"}

\* the character at place k is read outside strings and comments, does not
\* continue a word, and is none of whitespace, newline, ';', '#', '"', letter
Unexpected(src, k) ==
    /\ ModeAt(src, k) = "code"
    /\ src[k] \notin {" ", "\t", "\r", "\n", ";", "#", "\""}
    /\ ~LetterByte(src[k])
    /\ ~(k > 1 /\ ModeAt(src, k - 1) = "code" /\ WordByte(src[k - 1]) /\ WordByte(src[k]))

\* C17: when the text has such a character, lex fails with the 'Unexpected
\* character' error naming the first of them and its offset, and returns no
\* token; when it has none, lex does not fail with that error.
C17_UnexpectedCharacter ==
    lexed # None =>
        LET bad == {k \in 1..Len(source) : Unexpected(source, k)} IN
        IF bad # {}
        THEN LET k0 == CHOOSE k \in bad : \A j \in bad : k <= j IN
             /\ ~lexed.ok
             /\ lexed.tokens = <<>>
             /\ lexed.err = LexError("Unexpected character '{}' at position {}",
                                     <<source[k0]>>, k0 - 1)
        ELSE lexed.ok \/ lexed.err.msg # "Unexpected character '{}' at position {}"

\* the text f _ was lexed: the '_' that starts the second word is refused
C17_Witness ==
    /\ lexed # None
    /\ source = <<"f", " ", "_">>
    /\ ~lexed.ok
    /\ lexed.err.ch = <<"_">>
    /\ lexed.err.pos = 2


(***************************************************************************)
(* Blank scripts and blank statements, checked under SpecMain.             *)
(***************************************************************************)

\* the text holds nothing but comments, whitespace, newlines and ';'
OnlyBlank(src) ==
    \A k \in 1..Len(src) :
        \/ ModeAt(src, k) = "comment"
        \/ ModeAt(src, k) = "code" /\ src[k] \in {" ", "\t", "\r", "\n", ";", "#"}

\* the statements gs written as a token vector with one end of statement
\* between two statements and none before the first or after the last
RECURSIVE Join(_)
Join(gs) ==
    IF gs = <<>> THEN <<>>
    ELSE IF Len(gs) = 1 THEN gs[1]
    ELSE gs[1] \o <<Token("EndOfStatement", <<>>, 0)>> \o Join(Tail(gs))

\* C18: a script of comments, blank lines and separators only lexes to
\* end-of-statement tokens only, parses to the empty statement list and runs
\* to status 0 with no statement executed, no output and an empty
\* environment; and for any script the result of parse is the one the same
\* statements give with a single end of statement between them and none
\* before or after.
C18_BlankTolerance ==
    /\ (lexed # None /\ OnlyBlank(source)) =>
           /\ lexed.ok
           /\ \A i \in 1..Len(lexed.tokens) : lexed.tokens[i].kind = "EndOfStatement"
           /\ parsed # None => (parsed.ok /\ parsed.ast = <<>>)
           /\ pc = "exited" =>
                  (status = 0 /\ res.ok /\ idx = 0 /\ last = NoStmt /\ out = <<>>
                   /\ files = EmptyMap)
    /\ parsed # None =>
           LET q == parse(Join(Statements(tokens, <<>>, <<>>))) IN
           q.ok = parsed.ok /\ q.ast = parsed.ast

\* the script of a comment line and a line holding a lone ';' ended with
\* status 0: three end-of-statement tokens and one appended, no statement
C18_Witness ==
    /\ pc = "exited"
    /\ source = <<"#", " ", "c", "\n", " ", ";", "\n">>
    /\ Len(tokens) = 4
    /\ parsed.ast = <<>>
    /\ status = 0
    /\ files = EmptyMap


(***************************************************************************)
(* Properties of rename and truncate, checked under Spec.                  *)
(***************************************************************************)

\* a disk call made through a variable names the file the variable holds
UsesStoredFilename ==
    (last'.kind \in {"Read", "Write", "Append", "Truncate", "Replace", "Rename"}
        /\ io'.call # "none") => io'.path = files[last'.var_name].filename

\* C19: a rename whose disk move succeeds sets the filename of the variable
\* to the new name and leaves it open with the same content in memory; on
\* disk the old path no longer exists and the new path holds what the old
\* one held; and every disk call made through a variable uses the filename
\* the variable holds at that time.
C19_RenameMovesFile ==
    [][/\ UsesStoredFilename
       /\ (last'.kind = "Rename" /\ res'.ok) =>
             LET v == last'.var_name
                 new == last'.new_filename
                 old == files[v].filename
             IN /\ files' = [files EXCEPT ![v].filename = new]
                /\ files'[v].is_open
                /\ files'[v].content = files[v].content
                /\ old \notin DOMAIN disk'
                /\ new \in DOMAIN disk'
                /\ disk'[new] = disk[old]]_vars

\* C19, amended: as above when the new name differs from the old one; a
\* successful rename of a file to its own name leaves the disk as it is, the
\* old path still there.
C19_RenameMovesFileUnlessSameName ==
    [][/\ UsesStoredFilename
       /\ (last'.kind = "Rename" /\ res'.ok) =>
             LET v == last'.var_name
                 new == last'.new_filename
                 old == files[v].filename
             IN /\ files' = [files EXCEPT ![v].filename = new]
                /\ files'[v].is_open
                /\ files'[v].content = files[v].content
                /\ new \in DOMAIN disk'
                /\ disk'[new] = disk[old]
                /\ IF new = old THEN disk' = disk
                   ELSE disk' = Put(Del(disk, old), new, disk[old])]_vars

\* f was renamed from a to b with content x in memory: a is gone from the
\* disk, b is there, f is open on b and still holds x
C19_Witness ==
    /\ last = RenameStmt(<<"f">>, <<"b">>)
    /\ res.ok
    /\ io = Call("rename", <<"a">>, <<"b">>, TRUE)
    /\ files[<<"f">>] = FileEntry(<<"b">>, <<"x">>, TRUE)
    /\ <<"a">> \notin DOMAIN disk
    /\ <<"b">> \in DOMAIN disk


\* the variable v is open and its content is empty in memory and on disk
EmptyEverywhere(fs, d, v) ==
    /\ IsOpen(fs, v)
    /\ fs[v].content = <<>>
    /\ fs[v].filename \in DOMAIN d
    /\ d[fs[v].filename] = <<>>

\* C20: a truncate of an open variable fails only if its disk call fails; a
\* truncate that succeeds leaves the content empty in memory and on disk;
\* and on a variable whose content is already empty in memory and on disk,
\* as after a first truncate, it changes neither the environment nor the
\* disk.
C20_TruncateIdempotent ==
    [][last'.kind = "Truncate" =>
         LET v == last'.var_name IN
         /\ (IsOpen(files, v) /\ ~res'.ok) => (io'.call = "write_to_file" /\ ~io'.ok)
         /\ res'.ok => EmptyEverywhere(files', disk', v)
         /\ (res'.ok /\ EmptyEverywhere(files, disk, v)) => (files' = files /\ disk' = disk)
         /\ (res'.ok /\ last.kind = "Truncate" /\ res.ok /\ last.var_name = v) =>
                (files' = files /\ disk' = disk)]_vars

\* f, open on a, was truncated with success: a is on disk and empty, and so
\* is the content of f
C20_Witness ==
    /\ last = TruncateStmt(<<"f">>)
    /\ res.ok
    /\ io = Call("write_to_file", <<"a">>, <<>>, TRUE)
    /\ EmptyEverywhere(files, disk, <<"f">>)
    /\ files[<<"f">>].filename = <<"a">>

(***************************************************************************)
(* Properties of linecount, replace and search, checked under SpecScript.  *)
(* A step that changes idx is one iteration of run: the unprimed variables *)
(* are the state before the statement last' and the primed ones the state  *)
(* after it.                                                               *)
(***************************************************************************)
Executes(kind) == idx' = idx + 1 /\ last'.kind = kind

\* the number of newline-separated lines of t: one per newline, and one more
\* for text after the last newline
NewlineSeparated(t) ==
    Cardinality({i \in 1..Len(t) : t[i] = "\n"})
    + (IF t # <<>> /\ t[Len(t)] # "\n" THEN 1 ELSE 0)

ScenarioA == OpenLine \o WriteAlphaBetaLine \o LineCountLine

\* C21: linecount on an open variable succeeds and prints '<count> lines',
\* count being the number of newline-separated lines of the content in
\* memory (0 for empty content, a trailing newline adding no line); the
\* script open "t.txt" as f / write f "alpha<newline>beta" / linecount f
\* prints '2 lines'.
C21_LineCount ==
    [][/\ (Executes("LineCount") /\ IsOpen(files, last'.var_name)) =>
             /\ res' = Ok
             /\ out' = <<Line("{} lines", <<NewlineSeparated(files[last'.var_name].content)>>)>>
             /\ files[last'.var_name].content = <<>> => out' = <<Line("{} lines", <<0>>)>>
       /\ (source = ScenarioA /\ idx' = 3 /\ idx = 2) =>
             out' = <<Line("{} lines", <<2>>)>>]_vars

\* the script of the scenario ran to its third statement, which printed
\* '2 lines' for the content alpha<newline>beta
C21_Witness ==
    /\ source = ScenarioA
    /\ idx = 3
    /\ last = LineCountStmt(<<"f">>)
    /\ files[<<"f">>].content = AlphaBeta
    /\ out = <<Line("{} lines", <<2>>)>>

\* linecount printed '1 lines' for a content that ends with a newline
C21_WitnessTrailingNewline ==
    /\ last = LineCountStmt(<<"f">>)
    /\ idx > 0
    /\ files[<<"f">>].content = <<"\n">>
    /\ out = <<Line("{} lines", <<1>>)>>

\* the places of t where p occurs
Occurrences(t, p) == {i \in 1..(Len(t) - Len(p) + 1) : SubSeq(t, i, i + Len(p) - 1) = p}

\* u is t with every occurrence of p overwritten by r, for r as long as p
\* and p not overlapping itself
EveryMatchReplaced(t, p, r, u) ==
    /\ Len(u) = Len(t)
    /\ \A j \in 1..Len(t) :
          IF \E i \in Occurrences(t, p) : i <= j /\ j < i + Len(p)
          THEN \E i \in Occurrences(t, p) : i <= j /\ j < i + Len(p) /\ u[j] = r[j - i + 1]
          ELSE u[j] = t[j]

ScenarioB == OpenLine \o WriteFooBarFooLine \o ReplaceFooBazLine \o ShowLine

\* C22: a replace on an open variable with a valid pattern writes the
\* content in memory with every match replaced to the file of the variable
\* and, the write done, stores it in memory; a show that follows prints the
\* stored text (open "t.txt" as f / write f "foo bar foo" / replace f "foo"
\* "baz" / show f prints 'baz bar baz'); with an invalid pattern it is a
\* runtime error that calls no disk operation and changes neither the disk
\* nor the memory.
C22_ReplaceEveryMatch ==
    [][/\ (Executes("Replace") /\ IsOpen(files, last'.var_name)) =>
             LET v == last'.var_name
                 p == last'.pattern
                 r == last'.replacement
             IN IF p = <<"(">>
                THEN /\ ~res'.ok
                     /\ res'.msg = "Invalid regex '{}': {}"
                     /\ io' = NoCall
                     /\ files' = files
                     /\ disk' = disk
                ELSE /\ Len(p) = Len(r)
                     /\ io'.call = "write_to_file"
                     /\ io'.path = files[v].filename
                     /\ res'.ok = io'.ok
                     /\ res'.ok =>
                          /\ EveryMatchReplaced(files[v].content, p, r, files'[v].content)
                          /\ files' = [files EXCEPT ![v].content = files'[v].content]
                          /\ disk' = Put(disk, files[v].filename, files'[v].content)
                     /\ ~res'.ok => files' = files
       /\ (Executes("Show") /\ idx > 0 /\ last.kind = "Replace" /\ res.ok) =>
             out' = <<Line("{}", <<files[last.var_name].content>>)>>
       /\ (source = ScenarioB /\ idx = 3 /\ idx' = 4) =>
             out' = <<Line("{}", <<BazBarBaz>>)>>]_vars

\* the script of the scenario ran to its show, which printed baz bar baz,
\* the text the file holds too
C22_Witness ==
    /\ source = ScenarioB
    /\ idx = 4
    /\ last = ShowStmt(<<"f">>)
    /\ out = <<Line("{}", <<BazBarBaz>>)>>
    /\ files[<<"f">>].content = BazBarBaz
    /\ disk[TFile] = BazBarBaz

\* a replace with the pattern ( failed on the open variable f holding text
C22_WitnessInvalidPattern ==
    /\ idx > 0
    /\ last = ReplaceStmt(<<"f">>, <<"(">>, <<"x">>)
    /\ ~res.ok
    /\ IsOpen(files, <<"f">>)
    /\ files[<<"f">>].content = FooBarFoo

\* the numbers of the lines of t in which p occurs, counted from 1
MatchingLines(t, p) == {i \in 1..Len(Lines(t)) : Occurrences(Lines(t)[i], p) # {}}

\* C23: a search on an open variable prints exactly 'No matches found.' when
\* no line of the content matches; otherwise it prints one line
\* '<line_number>: <line_text>' for each matching line and no other, the
\* numbers counted from 1 and increasing; it calls no disk operation and
\* changes neither the environment nor the disk.
C23_SearchOutput ==
    [][(Executes("Search") /\ IsOpen(files, last'.var_name)) =>
          LET t == files[last'.var_name].content
              m == MatchingLines(t, last'.pattern)
          IN /\ res' = Ok
             /\ files' = files
             /\ disk' = disk
             /\ io' = NoCall
             /\ IF m = {} THEN out' = <<Line("No matches found.", <<>>)>>
                ELSE /\ Len(out') = Cardinality(m)
                     /\ \A k \in 1..Len(out') :
                           /\ out'[k].fmt = "{}: {}"
                           /\ out'[k].args[1] \in m
                           /\ out'[k].args[2] = Lines(t)[out'[k].args[1]]
                           /\ k > 1 => out'[k - 1].args[1] < out'[k].args[1]]_vars

\* search f "be" on alpha<newline>beta printed the one line '2: beta'
C23_Witness ==
    /\ idx > 0
    /\ last = SearchStmt(<<"f">>, <<"b", "e">>)
    /\ files[<<"f">>].content = AlphaBeta
    /\ out = <<Line("{}: {}", <<2, <<"b", "e", "t", "a">>>>)>>

\* search f "a" on alpha<newline>beta printed both lines in order
C23_WitnessTwoLines ==
    /\ idx > 0
    /\ last = SearchStmt(<<"f">>, <<"a">>)
    /\ out = <<Line("{}: {}", <<1, <<"a", "l", "p", "h", "a">>>>),
               Line("{}: {}", <<2, <<"b", "e", "t", "a">>>>)>>

\* search f "be" on foo bar foo printed 'No matches found.'
C23_WitnessNoMatch ==
    /\ idx > 0
    /\ last = SearchStmt(<<"f">>, <<"b", "e">>)
    /\ files[<<"f">>].content = FooBarFoo
    /\ out = <<Line("No matches found.", <<>>)>>

(***************************************************************************)
(* Properties of close and of the set of variables, checked under Spec.    *)
(***************************************************************************)

\* C24: a close of an open variable succeeds, sets it closed and keeps its
\* filename and its content, and calls no disk operation; a close of an
\* absent or closed variable is a runtime error that leaves the environment
\* and the disk unchanged.
C24_Close ==
    [][last'.kind = "Close" =>
         LET v == last'.var_name IN
         /\ disk' = disk
         /\ io' = NoCall
         /\ IF IsOpen(files, v)
            THEN /\ res' = Ok
                 /\ DOMAIN files' = DOMAIN files
                 /\ \A w \in DOMAIN files \ {v} : files'[w] = files[w]
                 /\ ~files'[v].is_open
                 /\ files'[v].filename = files[v].filename
                 /\ files'[v].content = files[v].content
            ELSE /\ ~res'.ok
                 /\ files' = files]_vars

\* f was closed while it held x: it is closed, still bound to a, still holds x
C24_Witness ==
    /\ last = CloseStmt(<<"f">>)
    /\ res.ok
    /\ files[<<"f">>] = FileEntry(<<"a">>, <<"x">>, FALSE)

\* a close of the closed variable f was refused
C24_WitnessClosed ==
    /\ last = CloseStmt(<<"f">>)
    /\ res = NotOpenError(<<"f">>)
    /\ <<"f">> \in DOMAIN files

NoneLine == Line("  (none)", <<>>)

ClosedLine(fs, v) ==
    Line("  {} -> {} [{}]", <<v, fs[v].filename, <<"c", "l", "o", "s", "e", "d">>>>)

Printed(o, l) == \E k \in 1..Len(o) : o[k] = l

\* C25: no statement removes a variable: the set of variables only grows,
\* and it grows only by the variable of a successful open that was absent
\* before; a closed variable is listed by dumpenv as
\* '<var> -> <filename> [closed]'; dumpenv prints '(none)' only when the
\* environment holds no variable, which is when no open ever succeeded.
C25_VariablesOnlyGrow ==
    [][/\ DOMAIN files \subseteq DOMAIN files'
       /\ DOMAIN files' # DOMAIN files =>
             /\ last'.kind = "Open"
             /\ res'.ok
             /\ last'.var_name \notin DOMAIN files
             /\ DOMAIN files' = DOMAIN files \cup {last'.var_name}
       /\ (last'.kind = "Open" /\ res'.ok) => DOMAIN files' # {}
       /\ (DOMAIN files = {} /\ DOMAIN files' = {}) => ~(last'.kind = "Open" /\ res'.ok)
       /\ last'.kind = "DumpEnv" =>
             /\ res'.ok
             /\ \A v \in DOMAIN files : ~files[v].is_open => Printed(out', ClosedLine(files, v))
             /\ Printed(out', NoneLine) <=> DOMAIN files = {}]_vars

\* dumpenv listed the closed variable f, still bound to a
C25_Witness ==
    /\ last = DumpEnvStmt
    /\ <<"f">> \in DOMAIN files
    /\ ~files[<<"f">>].is_open
    /\ out = <<Line("Environment Variables:", <<>>), ClosedLine(files, <<"f">>)>>
    /\ files[<<"f">>].filename = <<"a">>

\* dumpenv printed (none) for the environment without variables
C25_WitnessNone ==
    /\ last = DumpEnvStmt
    /\ files = EmptyMap
    /\ out = <<Line("Environment Variables:", <<>>), NoneLine>>

EnvironmentFreeKinds ==
    {"Copy", "Move", "Remove", "ListDir", "Show", "Search", "LineCount", "DumpEnv", "Help"}

\* the file fn is no longer on the disk after the call, and v was open on it
LostItsFile(v, fn) ==
    /\ IsOpen(files, v)
    /\ files[v].filename = fn
    /\ fn \in DOMAIN disk
    /\ fn \notin DOMAIN disk'

\* C26: copy, move, remove, listdir, show, search, linecount, dumpenv and
\* help leave the environment as it is, whether they succeed or fail; a
\* variable whose file was removed or moved away stays open with the same
\* filename and the same content.
C26_EnvironmentUntouched ==
    [][last'.kind \in EnvironmentFreeKinds =>
         /\ files' = files
         /\ \A v \in DOMAIN files :
               (last'.kind = "Remove" /\ res'.ok /\ LostItsFile(v, last'.filename)) =>
                   files'[v] = FileEntry(last'.filename, files[v].content, TRUE)
         /\ \A v \in DOMAIN files :
               (last'.kind = "Move" /\ res'.ok /\ LostItsFile(v, last'.source)) =>
                   files'[v] = FileEntry(last'.source, files[v].content, TRUE)]_vars

\* the file a was removed while f was open on it and held x
C26_Witness ==
    /\ last = RemoveStmt(<<"a">>)
    /\ res.ok
    /\ io = Call("remove_file", <<"a">>, <<>>, TRUE)
    /\ <<"a">> \notin DOMAIN disk
    /\ IsOpen(files, <<"f">>)
    /\ files[<<"f">>] = FileEntry(<<"a">>, <<"x">>, TRUE)

\* the file a was moved to b while f was open on a and held x
C26_WitnessMove ==
    /\ last = MoveStmt(<<"a">>, <<"b">>)
    /\ res.ok
    /\ <<"a">> \notin DOMAIN disk
    /\ IsOpen(files, <<"f">>)
    /\ files[<<"f">>] = FileEntry(<<"a">>, <<"x">>, TRUE)

\* a copy failed with f open
C26_WitnessFailure ==
    /\ last.kind = "Copy"
    /\ ~res.ok
    /\ IsOpen(files, <<"f">>)

(***************************************************************************)
(* Properties of two variables on one file, checked under SpecAlias.       *)
(***************************************************************************)
EnvironmentKinds ==
    {"Open", "Read", "Write", "Append", "Truncate", "Replace", "Rename", "Close"}

\* C27: open, read, write, append, truncate, replace, rename and close on a
\* variable v leave the entry of every other variable w as it is, also when
\* v and w are bound to the same filename: after a write or a rename through
\* v, w still has its old content and its old filename.
C27_OtherVariablesUntouched ==
    [][last'.kind \in EnvironmentKinds =>
         \A w \in DOMAIN files \ {last'.var_name} :
            /\ w \in DOMAIN files'
            /\ files'[w] = files[w]]_vars

\* f and g are open on a; a write of x through f succeeded and g still
\* holds the empty content
C27_Witness ==
    /\ last = WriteStmt(<<"f">>, <<"x">>)
    /\ res.ok
    /\ DOMAIN files = AliasVars
    /\ files[<<"f">>] = FileEntry(<<"a">>, <<"x">>, TRUE)
    /\ files[<<"g">>] = FileEntry(<<"a">>, <<>>, TRUE)
    /\ disk[<<"a">>] = <<"x">>

\* f and g were open on a; f was renamed to b and g is still bound to a,
\* which is no longer on the disk
C27_WitnessRename ==
    /\ last = RenameStmt(<<"f">>, <<"b">>)
    /\ res.ok
    /\ DOMAIN files = AliasVars
    /\ files[<<"f">>].filename = <<"b">>
    /\ files[<<"g">>].filename = <<"a">>
    /\ files[<<"g">>].is_open
    /\ <<"a">> \notin DOMAIN disk

(***************************************************************************)
(* Replace on a variable that was never read, checked under Spec.          *)
(***************************************************************************)

\* the text of n copies of r, which is a text of n letters x with every x
\* replaced by r
Copies(r, n) == Flatten([i \in 1..n |-> r])

\* C28: a replace that succeeds overwrites the file with the replacement
\* applied to the content in memory, whatever the file held: on a variable
\* opened on an existing non-empty file and not read since, the file is left
\* with the replacement applied to the empty text, which for the pattern x
\* is the empty text.
C28_ReplaceIgnoresDisk ==
    [][(last'.kind = "Replace" /\ res'.ok) =>
          LET v == last'.var_name
              fn == files[v].filename
          IN /\ fn \in DOMAIN disk'
             /\ \A n \in 0..MaxContent :
                   files[v].content = Copies(<<"x">>, n) =>
                       disk'[fn] = Copies(last'.replacement, n)
             /\ (last.kind = "Open" /\ res.ok /\ last.var_name = v
                 /\ fn \in DOMAIN disk /\ disk[fn] # <<>>) =>
                   (files[v].content = <<>> /\ disk'[fn] = <<>>)]_vars

\* f was opened on a, which held text, and the replace of x by xx that
\* followed left a empty
C28_Witness ==
    /\ last = ReplaceStmt(<<"f">>, <<"x">>, <<"x", "x">>)
    /\ res.ok
    /\ io = Call("write_to_file", <<"a">>, <<>>, TRUE)
    /\ IsOpen(files, <<"f">>)
    /\ files[<<"f">>] = FileEntry(<<"a">>, <<>>, TRUE)
    /\ disk[<<"a">>] = <<>>

(***************************************************************************)
(* The stop flag across calls of run, checked under SpecRuns.              *)
(***************************************************************************)

\* C29: once exit was executed stop stays set: from then on no call of run
\* on this Interpreter executes a statement, whatever AST it is given; the
\* environment, the disk and the output stay as they are, and each call
\* returns success.
C29_StopNeverReset ==
    [][stop => /\ stop'
               /\ UNCHANGED <<files, disk, out, res, io, last>>
               /\ idx' \in {idx, 0}
               /\ pc = "run" => (pc' = "exited" /\ status' = 0 /\ idx' = idx)]_vars

\* a call of run made after exit, with an AST whose first statement is a
\* write, returned success without executing it
C29_Witness ==
    /\ stop
    /\ pc = "exited"
    /\ status = 0
    /\ idx = 0
    /\ Len(parsed.ast) = 2
    /\ parsed.ast[1] = WriteStmt(<<"f">>, <<"x">>)
    /\ last = ExitStmt
    /\ IsOpen(files, <<"f">>)
    /\ files[<<"f">>].content = <<>>

(***************************************************************************)
(* The cursor of the parser, checked under SpecParse.                      *)
(***************************************************************************)

\* the index advance reads when it is called with the cursor at pos: the
\* cursor moves unless it is at the end, and the token before it is returned
AdvanceReads(toks, pos) == (IF pos < Len(toks) THEN pos + 1 ELSE pos) - 1

\* the index peek_token reads when it is called with the cursor at pos
PeekReads(toks, pos) == IF pos >= Len(toks) THEN Len(toks) - 1 ELSE pos

ValidIndex(toks, i) == 0 <= i /\ i < Len(toks)

\* one iteration of the loop of parse: the cursor at its head, the cursor
\* where it calls consume_end_of_statement or returns its error, the cursor
\* at its end, and whether the loop goes on
IterationAfter(toks, pos, stmt) ==
    IF ~stmt.ok \/ (~Parser_is_at_end(toks, stmt.pos) /\ ~check_end_of_statement(toks, stmt.pos))
    THEN <<pos, stmt.pos, stmt.pos, FALSE>>
    ELSE <<pos, stmt.pos, consume_end_of_statement(toks, stmt.pos).pos, TRUE>>

Iteration(toks, pos) ==
    IF check_end_of_statement(toks, pos)
    THEN <<pos, pos, consume_end_of_statement(toks, pos).pos, TRUE>>
    ELSE IterationAfter(toks, pos, parse_statement(toks, pos))

RECURSIVE Iterations(_, _)
IterationsFrom(toks, it) ==
    <<it>> \o (IF it[4] /\ it[3] > it[1] THEN Iterations(toks, it[3]) ELSE <<>>)

Iterations(toks, pos) ==
    IF Parser_is_at_end(toks, pos) THEN <<>> ELSE IterationsFrom(toks, Iteration(toks, pos))

IterationInBounds(toks, it) ==
    /\ ValidIndex(toks, PeekReads(toks, it[1]))
    /\ it[1] <= it[2] /\ it[2] <= it[3] /\ it[3] <= Len(toks)
    /\ \A q \in it[1]..(it[2] - 1) : ValidIndex(toks, AdvanceReads(toks, q))
    /\ ~Parser_is_at_end(toks, it[2]) => ValidIndex(toks, PeekReads(toks, it[2]))
    /\ it[4] => /\ ValidIndex(toks, AdvanceReads(toks, it[2]))
                /\ it[3] >= it[1] + 1

\* C30: for every token vector, the empty one and those that do not end
\* with an end of statement included, parse returns an AST or a ParseError;
\* the cursor stays between 0 and the length of the vector, every iteration
\* of the loop that goes on moves it by at least one token, and every call
\* of advance and of peek_token reads an index inside the vector.
C30_ParserStaysInBounds ==
    pc = "done" =>
        /\ parsed.ok \in BOOLEAN
        /\ parsed.ok => parsed.err = NoParseError
        /\ ~parsed.ok => (parsed.err.msg # "" /\ parsed.ast = <<>>)
        /\ tokens = <<>> => (parsed.ok /\ parsed.ast = <<>>)
        /\ \A k \in 1..Len(Iterations(tokens, 0)) :
              IterationInBounds(tokens, Iterations(tokens, 0)[k])

\* the vector of the one token exit, which does not end with an end of
\* statement: parse returned the AST of one statement, and the last call of
\* advance was made with the cursor at the end
C30_Witness ==
    /\ pc = "done"
    /\ tokens = <<Token("Exit", <<>>, 0)>>
    /\ parsed.ok
    /\ parsed.ast = <<ExitStmt>>
    /\ Iterations(tokens, 0) = <<<<0, 1, 1, TRUE>>>>

\* the empty vector: parse returned the empty AST
C30_WitnessEmpty ==
    /\ pc = "done"
    /\ tokens = <<>>
    /\ parsed.ok
    /\ parsed.ast = <<>>

====
